---- MODULE Spec2Model ----
(***************************************************************************)
(* HALpdesk daemon: the session store (halpdesk/daemon/session.py) and the *)
(* request handlers of the daemon (halpdesk/daemon/server.py).             *)
(*                                                                         *)
(* Every handler is an `async def` without an await inside it, so the      *)
(* event loop runs each handler to completion before the next one starts:  *)
(* one action per handler.                                                 *)
(***************************************************************************)
EXTENDS Integers, Sequences, FiniteSets, TLC

VARIABLES
    sessions,   \* SessionManager.sessions: session_id -> Session
    now,        \* the wall clock read by time.time(), in ticks
    issued,     \* history: the identifiers returned by create_session so far
    last,       \* the response of the handler that ran last
    darwin,     \* _sys.platform == "darwin"
    settings,   \* provider_settings() and the environment at startup
    provider,   \* server.ai_provider: what create_provider gave
    AUTOSTARTED_OLLAMA_PROC,    \* the handle of the process it spawned
    ollama,     \* the Ollama servers of the machine and the signals sent
    OLLAMA_PULLING,     \* _OLLAMA_PULLING: the models being downloaded
    OLLAMA_PULL_LOCK,   \* _OLLAMA_PULL_LOCK: the thread that holds it
    threads     \* the threads inside OllamaProvider: position and result

\* the variables of the background downloads
pulling == <<OLLAMA_PULLING, OLLAMA_PULL_LOCK, threads>>

\* the variables the request handlers leave alone
startup == <<settings, provider, AUTOSTARTED_OLLAMA_PROC, ollama, pulling>>

vars == <<sessions, now, issued, last, darwin, startup>>

----------------------------------------------------------------------------
(* Bounds *)

TicksPerSecond == 2     \* resolution of the float clock below one second
MaxShort == 1           \* short clock steps taken after each long step
MaxJumps == 1           \* long clock steps
MaxSessions == 2        \* sessions held by the store at one time
MaxHistory == 2         \* history records per session

(* Program constants *)

DefaultMaxAge == 3600   \* cleanup_stale_sessions(max_age=3600), seconds

----------------------------------------------------------------------------
(* Clock *)

LongStep == DefaultMaxAge * TicksPerSecond + 1
MaxTime == MaxJumps * LongStep + MaxShort
ClockSteps == {1, LongStep}

\* int(time.time())
IntTime(t) == t \div TicksPerSecond

\* the process ids and directories of the terminals that create sessions,
\* and the process ids of the clients that attach to them
Pids == {1234}
Cwds == {"/tmp"}
ClientPids == {1, 2}

----------------------------------------------------------------------------
(* session.py *)

EXECUTION == "EXECUTION"
CHAT == "CHAT"

ValueError == "ValueError"

\* a lookup that falls back to EXECUTION for an unknown string
SessionMode_mut(value) ==
    CASE value = "chat" -> CHAT
      [] OTHER -> EXECUTION

\* SessionMode(value): the member whose value is the string, else ValueError
SessionMode(value) ==
    CASE value = "exec" -> EXECUTION
      [] value = "chat" -> CHAT
      [] OTHER -> ValueError

\* SessionMode.value
ModeValue(mode) == IF mode = EXECUTION THEN "exec" ELSE "chat"

\* the attached-client set of a new session
NoAttachedClients == {}

\* a Session whose history is shared with a record of an earlier one
Session_mut(session_id, pid, cwd, t) ==
    [session_id |-> session_id, pid |-> pid, cwd |-> cwd,
     mode |-> EXECUTION, created_at |-> t, last_active |-> t,
     history |-> <<[type |-> "chat", message |-> "hello",
                    response |-> <<"hi">>]>>,
     attached_clients |-> {}]

\* Session(session_id, pid, cwd) followed by __post_init__
Session(session_id, pid, cwd, t) ==
    [session_id |-> session_id, pid |-> pid, cwd |-> cwd,
     mode |-> EXECUTION, created_at |-> t, last_active |-> t,
     history |-> <<>>, attached_clients |-> NoAttachedClients]

\* f"term_{pid}_{int(time.time())}"
SessionId(pid, t) == [pid |-> pid, ts |-> IntTime(t)]

\* self.sessions[session_id] = session
Put(store, session_id, session) ==
    [k \in DOMAIN store \cup {session_id} |->
        IF k = session_id THEN session ELSE store[k]]

\* del self.sessions[session_id], for every id of a set
Remove(store, ids) == [k \in DOMAIN store \ ids |-> store[k]]

\* SessionManager.create_session: the store after the call
create_session(store, pid, cwd, t) ==
    Put(store, SessionId(pid, t), Session(SessionId(pid, t), pid, cwd, t))

\* Session.update_activity
update_activity(session, t) == [session EXCEPT !.last_active = t]

\* an add_to_history that does not record the activity
add_to_history_idle(session, entry, t) ==
    [session EXCEPT !.history = Append(@, entry)]

\* an add_to_history that inserts the record at the front
add_to_history_front(session, entry, t) ==
    update_activity([session EXCEPT !.history = <<entry>> \o @], t)

\* Session.add_to_history
add_to_history(session, entry, t) ==
    update_activity([session EXCEPT !.history = Append(@, entry)], t)

\* Session.to_dict
to_dict(session) == [session EXCEPT !.mode = ModeValue(@)]

\* SessionManager.list_sessions: one to_dict per value of the dictionary;
\* the entries as a set, their order (insertion order) left out
list_sessions(store) == {to_dict(store[k]) : k \in DOMAIN store}

\* SessionManager.delete_session: the store after the call
delete_session(store, session_id) == Remove(store, {session_id})

\* a switch_mode that records the activity and forgets the mode
switch_mode_mut(store, session_id, mode, t) ==
    IF session_id \in DOMAIN store
    THEN [store EXCEPT ![session_id] = update_activity(@, t)]
    ELSE store

\* SessionManager.switch_mode: the store after the call
switch_mode(store, session_id, mode, t) ==
    IF session_id \in DOMAIN store
    THEN [store EXCEPT ![session_id] =
            update_activity([@ EXCEPT !.mode = mode], t)]
    ELSE store

\* a sweep that also collects the sessions idle for exactly max_age
stale_sessions_mut(store, max_age, t) ==
    {k \in DOMAIN store :
        t - store[k].last_active >= max_age * TicksPerSecond}

\* SessionManager.cleanup_stale_sessions: the identifiers it collects
stale_sessions(store, max_age, t) ==
    {k \in DOMAIN store :
        t - store[k].last_active > max_age * TicksPerSecond}

\* SessionManager.cleanup_stale_sessions: the store after the call
cleanup_stale_sessions(store, max_age, t) ==
    Remove(store, stale_sessions(store, max_age, t))

\* SessionManager.attach: the store after the call
attach(store, session_id, client_pid) ==
    IF session_id \in DOMAIN store
    THEN [store EXCEPT ![session_id].attached_clients = @ \cup {client_pid}]
    ELSE store

\* SessionManager.attach: the attached count, -1 when not found
attach_count(store, session_id, client_pid) ==
    IF session_id \in DOMAIN store
    THEN Cardinality(store[session_id].attached_clients \cup {client_pid})
    ELSE -1

\* SessionManager.detach: the store after the call
detach(store, session_id, client_pid) ==
    IF session_id \in DOMAIN store
    THEN [store EXCEPT ![session_id].attached_clients = @ \ {client_pid}]
    ELSE store

\* SessionManager.detach: the result
detach_result(store, session_id, client_pid) ==
    [found |-> session_id \in DOMAIN store, closed |-> FALSE]

\* SessionManager.leave: the result
leave_result(store, session_id, client_pid) ==
    [found |-> session_id \in DOMAIN store,
     closed |-> /\ session_id \in DOMAIN store
                /\ store[session_id].attached_clients \ {client_pid} = {}]

\* SessionManager.leave: the store after the call
leave(store, session_id, client_pid) ==
    IF leave_result(store, session_id, client_pid).closed
    THEN Remove(store, {session_id})
    ELSE detach(store, session_id, client_pid)

----------------------------------------------------------------------------
(* Text.  A text is a sequence of tokens: a whitespace character, a quote, *)
(* a parenthesis, a brace, a backslash and a triple backtick are tokens of *)
(* their own, the body of a JSON object (the text between its braces) is   *)
(* one token, and so is every other maximal run of characters.             *)

None == "None"

SP == " "
NL == "\n"
CR == "\r"
FENCE == "<fence>"     \* three backticks
SQ == "<sq>"           \* a single quote
DQ == "\""
BS == "\\"

\* str.isspace
IsSpace(tok) == tok \in {SP, NL, CR, "\t"}

\* tokens made of the characters [a-zA-Z0-9_-] only
TagWords == {"json", "bash", "ls", "-la", "pwd", "echo", "find", "-printf"}

\* str.lower, token by token
LowerTok(tok) ==
    CASE tok = "ASK:" -> "ask:"
      [] tok = "Ask:" -> "ask:"
      [] tok = "ASK" -> "ask"
      [] tok = "Refuse" -> "refuse"
      [] tok = "LS" -> "ls"
      [] tok = "RM" -> "rm"
      [] tok = "SUDO" -> "sudo"
      [] OTHER -> tok

Lower(text) == [i \in 1..Len(text) |-> LowerTok(text[i])]

RECURSIVE LStrip(_)
LStrip(text) ==
    IF text # <<>> /\ IsSpace(Head(text)) THEN LStrip(Tail(text)) ELSE text

RECURSIVE RStrip(_)
RStrip(text) ==
    IF text # <<>> /\ IsSpace(text[Len(text)])
    THEN RStrip(SubSeq(text, 1, Len(text) - 1))
    ELSE text

\* str.strip
Strip(text) == RStrip(LStrip(text))

\* x in text, for x one of the tokens
Contains(text, toks) == \E i \in 1..Len(text) : text[i] \in toks

----------------------------------------------------------------------------
(* server.py: _parse_decision *)

\* the bodies of the JSON objects the provider may write, as json.loads
\* reads them: the keys absent from the object are None
JsonBodies ==
    [b \in {"\"action\":\"command\",\"command\":\"ls -la\"",
            "\"action\":\"command\",\"command\":\"ls\\npwd\"",
            "\"action\":\"command\",\"command\":\"echo \\\"unterminated\"",
            "\"action\":\"command\",\"command\":\"find . -printf x\"",
            "\"action\":\"command\"",
            "\"action\":\"command\",\"command\":\"\"",
            "\"action\":\"command\",\"command\":\" \"",
            "\"action\":\"explain\"",
            "\"action\":\"ASK\",\"question\":\"which directory?\"",
            "\"action\":\"ask\"",
            "\"action\":\"Refuse\",\"reason\":\"too risky\"",
            "\"action\":\"refuse\"",
            "\"action\":\"explain\",\"command\":\"pwd\"",
            "\"command\":\"pwd\""} |->
        CASE b = "\"action\":\"command\",\"command\":\"ls -la\"" ->
                [has_action |-> TRUE, action |-> <<"command">>,
                 command |-> <<"ls", SP, "-la">>,
                 question |-> None, reason |-> None]
          [] b = "\"action\":\"command\",\"command\":\"ls\\npwd\"" ->
                [has_action |-> TRUE, action |-> <<"command">>,
                 command |-> <<"ls", NL, "pwd">>,
                 question |-> None, reason |-> None]
          [] b = "\"action\":\"command\",\"command\":\"echo \\\"unterminated\"" ->
                [has_action |-> TRUE, action |-> <<"command">>,
                 command |-> <<"echo", SP, DQ, "unterminated">>,
                 question |-> None, reason |-> None]
          [] b = "\"action\":\"command\",\"command\":\"find . -printf x\"" ->
                [has_action |-> TRUE, action |-> <<"command">>,
                 command |-> <<"find", SP, ".", SP, "-printf", SP, "x">>,
                 question |-> None, reason |-> None]
          [] b = "\"action\":\"command\"" ->
                [has_action |-> TRUE, action |-> <<"command">>,
                 command |-> None, question |-> None, reason |-> None]
          [] b = "\"action\":\"command\",\"command\":\"\"" ->
                [has_action |-> TRUE, action |-> <<"command">>,
                 command |-> <<>>, question |-> None, reason |-> None]
          [] b = "\"action\":\"command\",\"command\":\" \"" ->
                [has_action |-> TRUE, action |-> <<"command">>,
                 command |-> <<SP>>, question |-> None, reason |-> None]
          [] b = "\"action\":\"explain\"" ->
                [has_action |-> TRUE, action |-> <<"explain">>,
                 command |-> None, question |-> None, reason |-> None]
          [] b = "\"action\":\"ASK\",\"question\":\"which directory?\"" ->
                [has_action |-> TRUE, action |-> <<"ASK">>,
                 command |-> None,
                 question |-> <<"which", SP, "directory?">>,
                 reason |-> None]
          [] b = "\"action\":\"ask\"" ->
                [has_action |-> TRUE, action |-> <<"ask">>,
                 command |-> None, question |-> None, reason |-> None]
          [] b = "\"action\":\"Refuse\",\"reason\":\"too risky\"" ->
                [has_action |-> TRUE, action |-> <<"Refuse">>,
                 command |-> None, question |-> None,
                 reason |-> <<"too", SP, "risky">>]
          [] b = "\"action\":\"refuse\"" ->
                [has_action |-> TRUE, action |-> <<"refuse">>,
                 command |-> None, question |-> None, reason |-> None]
          [] b = "\"action\":\"explain\",\"command\":\"pwd\"" ->
                [has_action |-> TRUE, action |-> <<"explain">>,
                 command |-> <<"pwd">>, question |-> None, reason |-> None]
          [] OTHER ->
                [has_action |-> FALSE, action |-> None,
                 command |-> <<"pwd">>, question |-> None, reason |-> None]]

\* the text without the whitespace json.loads skips between its tokens
JsonTokens(text) == SelectSeq(text, LAMBDA tok : ~IsSpace(tok))

\* json.loads(text) returns a dict (anything else leaves the try block
\* without a decision: an exception, or a value that is no dict)
LoadsDict(text) ==
    /\ Len(JsonTokens(text)) = 3
    /\ JsonTokens(text)[1] = "{"
    /\ JsonTokens(text)[2] \in DOMAIN JsonBodies
    /\ JsonTokens(text)[3] = "}"

\* the dict json.loads(text) returns
Loads(text) == JsonBodies[JsonTokens(text)[2]]

\* a decision that keeps the action as the provider spelled it
DecisionOf_mut(obj) ==
    [action |-> obj.action, command |-> obj.command,
     question |-> obj.question, reason |-> obj.reason]

\* the decision built from a dict that has the key "action"
DecisionOf(obj) ==
    [action |-> Lower(obj.action), command |-> obj.command,
     question |-> obj.question, reason |-> obj.reason]

\* re.sub(r"^```[a-zA-Z0-9_-]*\s*", "", text) on a text that starts with ```
DropFenceHead(text) ==
    IF Len(text) >= 2 /\ text[2] \in TagWords
    THEN LStrip(SubSeq(text, 3, Len(text)))
    ELSE LStrip(Tail(text))

\* re.sub(r"\s*```$", "", text)
DropFenceTail(text) ==
    IF text # <<>> /\ text[Len(text)] = FENCE
    THEN RStrip(SubSeq(text, 1, Len(text) - 1))
    ELSE text

\* the text _parse_decision works on: stripped, code fences removed
Unfenced(raw) ==
    IF Strip(raw) # <<>> /\ Head(Strip(raw)) = FENCE
    THEN DropFenceTail(DropFenceHead(Strip(raw)))
    ELSE Strip(raw)

\* re.search(r"\{[\s\S]*\}", text).group(0): from the first "{" to the last
\* "}" after it, <<>> when there is no match
BraceMatch(text) ==
    LET opens == {i \in 1..Len(text) : text[i] = "{"}
        closes == {j \in 1..Len(text) : text[j] = "}"}
        first == CHOOSE i \in opens : \A k \in opens : i <= k
        lastc == CHOOSE j \in closes : \A k \in closes : k <= j
    IN  IF opens # {} /\ closes # {} /\ first < lastc
        THEN SubSeq(text, first, lastc)
        ELSE <<>>

\* _parse_decision(raw)
parse_decision(raw) ==
    LET text == Unfenced(raw)
        m == BraceMatch(text)
    IN  IF LoadsDict(text) /\ Loads(text).has_action
        THEN DecisionOf(Loads(text))
        ELSE IF m # <<>> /\ LoadsDict(m) /\ Loads(m).has_action
        THEN DecisionOf(Loads(m))
        ELSE IF text # <<>> /\ LowerTok(Head(text)) = "ask:"
        THEN [action |-> <<"ask">>, question |-> Strip(Tail(text)),
              command |-> None, reason |-> None]
        ELSE [action |-> <<"command">>, command |-> text,
              question |-> None, reason |-> None]

----------------------------------------------------------------------------
(* server.py: validation of a command *)

\* a default command that is empty
NoCommand_mut == <<>>

\* decision.get("command") or "echo 'No command generated'"
NoCommand == <<"echo", SP, SQ, "No", SP, "command", SP, "generated", SQ>>

\* decision.get("question") or "Could you provide more details?"
MoreDetails == <<"Could you provide more details?">>

\* decision.get("reason") or "Cannot proceed with the request."
CannotProceed == <<"Cannot proceed with the request.">>

ReformatOneLine == <<"Reformat: one line">>
ReformatBalance == <<"Reformat: unbalanced">>
ReformatGnu == <<"Reformat: GNU-only options">>

\* x or default, for x a text or None
OrElse(x, default) == IF x = None \/ x = <<>> THEN default ELSE x

\* a one-line check that overlooks the carriage return
NotOneLine_mut(command) == Contains(command, {NL, FENCE})

\* "\n" in command or "\r" in command or "```" in command
NotOneLine(command) == Contains(command, {NL, CR, FENCE})

\* the loop of _balanced_quotes_and_parens from position i on; paren = -1
\* stands for the early return False
RECURSIVE Scan(_, _, _, _, _, _)
Scan(s, i, in_s, in_d, esc, paren) ==
    IF i > Len(s) THEN (~in_s) /\ (~in_d) /\ paren = 0
    ELSE IF esc THEN Scan(s, i + 1, in_s, in_d, FALSE, paren)
    ELSE IF s[i] = BS THEN Scan(s, i + 1, in_s, in_d, TRUE, paren)
    ELSE IF ~in_d /\ s[i] = SQ THEN Scan(s, i + 1, ~in_s, in_d, esc, paren)
    ELSE IF ~in_s /\ s[i] = DQ THEN Scan(s, i + 1, in_s, ~in_d, esc, paren)
    ELSE IF ~in_s /\ ~in_d /\ s[i] = "("
         THEN Scan(s, i + 1, in_s, in_d, esc, paren + 1)
    ELSE IF ~in_s /\ ~in_d /\ s[i] = ")"
         THEN IF paren - 1 < 0 THEN FALSE
              ELSE Scan(s, i + 1, in_s, in_d, esc, paren - 1)
    ELSE Scan(s, i + 1, in_s, in_d, esc, paren)

\* a balance check that counts quotes and parentheses wherever they stand
balanced_quotes_and_parens_mut(s) ==
    /\ Cardinality({i \in 1..Len(s) : s[i] = SQ}) % 2 = 0
    /\ Cardinality({i \in 1..Len(s) : s[i] = DQ}) % 2 = 0
    /\ Cardinality({i \in 1..Len(s) : s[i] = "("})
           = Cardinality({i \in 1..Len(s) : s[i] = ")"})

\* _balanced_quotes_and_parens(s)
balanced_quotes_and_parens(s) == Scan(s, 1, FALSE, FALSE, FALSE, 0)

\* forbidden_patterns: a tool, whitespace, anything, a GNU-only flag
forbidden_patterns ==
    {[tool |-> "find", flags |-> {"-printf"}],
     [tool |-> "sed", flags |-> {"-r"}],
     [tool |-> "du", flags |-> {"--", "--block-size=1M", "--max-depth=1"}],
     [tool |-> "grep", flags |-> {"-P"}]}

\* re.search(pat, command) for one of the forbidden patterns
SearchPattern(pat, command) ==
    \E i \in 1..Len(command), j \in 1..Len(command) :
        /\ command[i] = pat.tool
        /\ i + 1 < j
        /\ IsSpace(command[i + 1])
        /\ command[j] \in pat.flags

\* a guardrail on every platform
GnuOnly_mut(command, is_darwin) ==
    \E pat \in forbidden_patterns : SearchPattern(pat, command)

\* the macOS guardrail rejects the command
GnuOnly(command, is_darwin) ==
    is_darwin /\ \E pat \in forbidden_patterns : SearchPattern(pat, command)

----------------------------------------------------------------------------
(* safety.py *)

SAFE == "SAFE"
WARNING == "WARNING"
DANGEROUS == "DANGEROUS"

\* the provider's chat raised
Raised == <<"<exception>">>

DANGEROUS_COMMANDS == {"rm", "rmdir", "dd", "mkfs", "fdisk", "format"}

\* the keys of WARNING_COMMANDS, each a text
WARNING_COMMANDS ==
    {<<"mv">>, <<"cp">>, <<"chmod">>, <<"chown">>, <<"sudo">>, <<"su">>,
     <<"wget">>, <<"curl">>, <<"git", SP, "reset", SP, "--hard">>}

\* tokens that begin with "/" and tokens that begin with "*"
SlashTokens == {"/", "/tmp", "/dev/sda"}
StarTokens == {"*", "*.py"}

\* the index of the first token at or after i that is no whitespace
RECURSIVE SkipSpace(_, _)
SkipSpace(text, i) ==
    IF i <= Len(text) /\ IsSpace(text[i]) THEN SkipSpace(text, i + 1) ELSE i

\* re.search(r'rm\s+-rf\s*/', c) or re.search(r'rm\s+-rf\s*\*', c)
RmRf(c) ==
    \E i \in 1..Len(c) :
        /\ c[i] = "rm"
        /\ i + 1 <= Len(c) /\ IsSpace(c[i + 1])
        /\ LET j == SkipSpace(c, i + 1)
           IN  /\ j <= Len(c) /\ c[j] = "-rf"
               /\ LET k == SkipSpace(c, j + 1)
                  IN  k <= Len(c) /\ c[k] \in SlashTokens \cup StarTokens

\* re.search(r':\(\)\{\s*:\|:\&\s*\}', c)
ForkBomb(c) ==
    \E i \in 1..Len(c) :
        /\ i + 4 <= Len(c)
        /\ c[i] = ":" /\ c[i + 1] = "(" /\ c[i + 2] = ")" /\ c[i + 3] = "{"
        /\ LET j == SkipSpace(c, i + 4)
           IN  /\ j <= Len(c) /\ c[j] = ":|:&"
               /\ LET k == SkipSpace(c, j + 1)
                  IN  k <= Len(c) /\ c[k] = "}"

\* re.search(r'dd\s+.*of=/dev/', c) or re.search(r'>\s*/dev/sd[a-z]', c)
DeviceWrite(c) ==
    \/ \E i \in 1..Len(c), j \in 1..Len(c) :
        /\ c[i] = "dd" /\ i + 1 < j /\ IsSpace(c[i + 1])
        /\ c[j] \in {"of=/dev/sda", "of=/dev/null"}
        /\ ~Contains(SubSeq(c, i + 1, j), {NL})
    \/ \E i \in 1..Len(c) :
        /\ c[i] = ">"
        /\ SkipSpace(c, i + 1) <= Len(c)
        /\ c[SkipSpace(c, i + 1)] = "/dev/sda"

\* command.split()[0] if command.split() else "": the tokens of the first
\* whitespace-delimited word
RECURSIVE FirstWord(_)
FirstWord(text) ==
    IF LStrip(text) = <<>> THEN <<>>
    ELSE LET t == LStrip(text)
         IN  IF Len(t) >= 2 /\ ~IsSpace(t[2])
             THEN <<t[1]>> \o FirstWord(Tail(t))
             ELSE <<t[1]>>

\* a heuristic that looks at the first word before the patterns
fallback_safety_check_mut(command) ==
    LET c == Lower(Strip(command))
        first_word == FirstWord(c)
    IN  IF Len(first_word) = 1 /\ first_word[1] \in DANGEROUS_COMMANDS
        THEN DANGEROUS
        ELSE IF first_word \in WARNING_COMMANDS THEN WARNING
        ELSE IF RmRf(c) \/ ForkBomb(c) \/ DeviceWrite(c) THEN DANGEROUS
        ELSE SAFE

\* CommandSafetyChecker._fallback_safety_check: the level
fallback_safety_check(command) ==
    LET c == Lower(Strip(command))
        first_word == FirstWord(c)
    IN  IF RmRf(c) \/ ForkBomb(c) \/ DeviceWrite(c) THEN DANGEROUS
        ELSE IF Len(first_word) = 1 /\ first_word[1] \in DANGEROUS_COMMANDS
             THEN DANGEROUS
        ELSE IF first_word \in WARNING_COMMANDS THEN WARNING
        ELSE IF /\ Len(c) >= 2 /\ c[1] = "sudo" /\ c[2] = SP
                /\ LET remaining_first == FirstWord(SubSeq(c, 3, Len(c)))
                   IN  /\ Len(remaining_first) = 1
                       /\ remaining_first[1] \in DANGEROUS_COMMANDS
             THEN DANGEROUS
        ELSE SAFE

\* str.upper, token by token
UpperTok(tok) ==
    CASE tok \in {"safe:", "Safe:"} -> "SAFE:"
      [] tok \in {"warning:", "Warning:"} -> "WARNING:"
      [] tok \in {"dangerous:", "Dangerous:"} -> "DANGEROUS:"
      [] OTHER -> tok

\* an AI check whose prefixes must be in upper case
ai_safety_check_mut(command, answer) ==
    LET response == Strip(answer)
    IN  IF answer = Raised \/ response = <<>>
        THEN fallback_safety_check(command)
        ELSE IF response[1] = "DANGEROUS:" THEN DANGEROUS
        ELSE IF response[1] = "WARNING:" THEN WARNING
        ELSE IF response[1] = "SAFE:" THEN SAFE
        ELSE fallback_safety_check(command)

\* CommandSafetyChecker._ai_safety_check: the level, for the provider's
\* answer to the safety prompt
ai_safety_check(command, answer) ==
    LET response == Strip(answer)
    IN  IF answer = Raised \/ response = <<>>
        THEN fallback_safety_check(command)
        ELSE IF UpperTok(response[1]) = "DANGEROUS:" THEN DANGEROUS
        ELSE IF UpperTok(response[1]) = "WARNING:" THEN WARNING
        ELSE IF UpperTok(response[1]) = "SAFE:" THEN SAFE
        ELSE fallback_safety_check(command)

\* check_command without the provider's answer
check_command_mut(command, answer) == fallback_safety_check(command)

\* CommandSafetyChecker.check_command: the daemon builds the checker with
\* its provider, so the AI check runs
check_command(command, answer) == ai_safety_check(command, answer)

\* str.upper of the reasons a provider gives
Upper(text) ==
    [i \in 1..Len(text) |->
        CASE text[i] = "modifies files" -> "MODIFIES FILES"
          [] text[i] = "read only" -> "READ ONLY"
          [] OTHER -> UpperTok(text[i])]

\* _fallback_safety_check: the reason
fallback_safety_reason(command) ==
    LET c == Lower(Strip(command))
        first_word == FirstWord(c)
    IN  IF RmRf(c) \/ ForkBomb(c) \/ DeviceWrite(c)
        THEN <<"Potentially destructive pattern detected">>
        ELSE IF Len(first_word) = 1 /\ first_word[1] \in DANGEROUS_COMMANDS
             THEN <<SQ>> \o first_word \o <<SQ, SP, "can be destructive">>
        ELSE IF first_word \in WARNING_COMMANDS
             THEN <<SQ>> \o first_word \o <<SQ, SP, "modifies system state">>
        ELSE IF /\ Len(c) >= 2 /\ c[1] = "sudo" /\ c[2] = SP
                /\ LET remaining_first == FirstWord(SubSeq(c, 3, Len(c)))
                   IN  /\ Len(remaining_first) = 1
                       /\ remaining_first[1] \in DANGEROUS_COMMANDS
             THEN <<"sudo", SP>> \o FirstWord(SubSeq(c, 3, Len(c)))
                      \o <<SP, "can be very destructive">>
        ELSE <<"Command appears safe">>

\* _ai_safety_check: the reason, what follows the prefix in the upper-cased
\* answer or a default
ai_safety_reason(command, answer) ==
    LET response == Upper(Strip(answer))
        reason == IF response = <<>> THEN <<>> ELSE Strip(Tail(response))
    IN  IF answer = Raised \/ response = <<>>
        THEN fallback_safety_reason(command)
        ELSE IF response[1] = "DANGEROUS:"
        THEN IF reason = <<>> THEN <<"AI detected high risk">> ELSE reason
        ELSE IF response[1] = "WARNING:"
        THEN IF reason = <<>> THEN <<"AI detected moderate risk">> ELSE reason
        ELSE IF response[1] = "SAFE:"
        THEN IF reason = <<>> THEN <<"AI confirmed safe">> ELSE reason
        ELSE fallback_safety_reason(command)

\* check_command: the pair it returns
Verdict(command, answer) ==
    [level |-> check_command(command, answer),
     reason |-> ai_safety_reason(command, answer)]

\* _fallback_safety_check: the pair it returns
FallbackVerdict(command) ==
    [level |-> fallback_safety_check(command),
     reason |-> fallback_safety_reason(command)]

----------------------------------------------------------------------------
(* ai_provider.py: AIProviderFactory.create_provider *)

\* what a credential setting or environment variable may hold
Keys == {None, "", "key"}

\* `not key` is false
Present(key) == key # None /\ key # ""

\* cfg.get("default"): HALPDESK_PROVIDER, or providers.default of the file
Defaults == {None, "", "gemini", "claude", "ollama", "openai", "Claude"}

\* providers.ollama.model
Models == {None, "llama3"}

RuntimeError == "RuntimeError"
Unset == "unset"

\* the settings and environment create_provider reads
Settings ==
    [default : Defaults,
     gemini_key : Keys,         \* GEMINI_API_KEY
     claude_key : Keys,         \* providers.claude.api_key, ANTHROPIC_API_KEY
     ollama_model : Models,
     local : BOOLEAN,           \* _is_local(base)
     autostart : BOOLEAN,       \* HALPDESK_OLLAMA_AUTOSTART not 0, false, no
     binary : BOOLEAN]          \* binary or shutil.which("ollama")

\* (cfg.get("default") or "").lower()
LowerName(default) ==
    CASE default = None -> ""
      [] default = "Claude" -> "claude"
      [] OTHER -> default

\* build_gemini: the provider, or None
build_gemini(cfg) ==
    IF Present(cfg.gemini_key) THEN "GeminiProvider" ELSE None

\* build_claude: the provider, or None
build_claude(cfg) ==
    IF Present(cfg.claude_key) THEN "ClaudeProvider" ELSE None

\* a _try_start_ollama that does not probe the server first
try_start_ollama_mut(cfg, up) ==
    cfg.local /\ cfg.autostart /\ cfg.binary

\* _try_start_ollama: subprocess.Popen is called
try_start_ollama(cfg, up) ==
    (~up) /\ cfg.local /\ cfg.autostart /\ cfg.binary

\* build_ollama gets as far as _try_start_ollama
ollama_started(cfg) == cfg.ollama_model # None

\* build_ollama: the provider or the RuntimeError raised; up_after is the
\* reachability of the server after _try_start_ollama, installed says that
\* the configured model is among the installed ones; provider._tags()
\* answers [] when the server is out of reach
build_ollama(cfg, up_after, installed) ==
    IF cfg.ollama_model = None THEN RuntimeError
    ELSE IF up_after /\ installed THEN "OllamaProvider"
    ELSE RuntimeError

\* create_provider calls build_ollama
ollama_built(cfg) ==
    \/ LowerName(cfg.default) = "ollama"
    \/ /\ LowerName(cfg.default) \notin {"gemini", "claude"}
       /\ build_gemini(cfg) = None
       /\ build_claude(cfg) = None

\* a create_provider whose automatic chain asks for Claude first
create_provider_mut(cfg, up_after, installed) ==
    LET default == LowerName(cfg.default)
    IN  IF default = "gemini"
        THEN IF build_gemini(cfg) = None THEN RuntimeError
             ELSE build_gemini(cfg)
        ELSE IF default = "claude"
        THEN IF build_claude(cfg) = None THEN RuntimeError
             ELSE build_claude(cfg)
        ELSE IF default = "ollama"
        THEN build_ollama(cfg, up_after, installed)
        ELSE IF build_claude(cfg) # None THEN build_claude(cfg)
        ELSE IF build_gemini(cfg) # None THEN build_gemini(cfg)
        ELSE build_ollama(cfg, up_after, installed)

\* create_provider: the provider returned or the RuntimeError raised
create_provider(cfg, up_after, installed) ==
    LET default == LowerName(cfg.default)
    IN  IF default = "gemini"
        THEN IF build_gemini(cfg) = None THEN RuntimeError
             ELSE build_gemini(cfg)
        ELSE IF default = "claude"
        THEN IF build_claude(cfg) = None THEN RuntimeError
             ELSE build_claude(cfg)
        ELSE IF default = "ollama"
        THEN build_ollama(cfg, up_after, installed)
        ELSE IF build_gemini(cfg) # None THEN build_gemini(cfg)
        ELSE IF build_claude(cfg) # None THEN build_claude(cfg)
        ELSE build_ollama(cfg, up_after, installed)

----------------------------------------------------------------------------
(* server.py *)

\* last before any request; afterwards the answer of the handler that ran
\* last: its status, its body, and the request fields of an answer that is
\* not 404; for suggest and chat also the calls the handler made:
\* safety_calls counts safety_checker.check_command, provider_calls counts
\* ai_provider.get_command_suggestion and ai_provider.chat (the safety
\* check is one chat call)
NoResponse == [op |-> "none"]

\* an identifier no create_session returns (pids start at 1)
UnknownId == [pid |-> 0, ts |-> 0]

\* the identifiers requests carry
RequestIds == DOMAIN sessions \cup issued \cup {UnknownId}

ModeStrings == {"exec", "chat", "execution"}

\* cleanup_stale_sessions called directly with a threshold, seconds
MaxAges == {0, 1}

\* POST /session/create
CreateSession(pid, cwd) ==
    /\ \/ Cardinality(DOMAIN sessions) < MaxSessions
       \/ SessionId(pid, now) \in DOMAIN sessions
    /\ sessions' = create_session(sessions, pid, cwd, now)
    /\ issued' = issued \cup {SessionId(pid, now)}
    /\ last' = [op |-> "create", status |-> 200, pid |-> pid, cwd |-> cwd,
                session_id |-> SessionId(pid, now)]
    /\ UNCHANGED <<now, darwin, startup>>

\* GET /session/list
ListSessions ==
    /\ last' = [op |-> "list", status |-> 200,
                sessions |-> list_sessions(sessions)]
    /\ UNCHANGED <<sessions, now, issued, darwin, startup>>

\* GET /session/{session_id}
GetSession(session_id) ==
    /\ last' = IF session_id \in DOMAIN sessions
               THEN [op |-> "get", status |-> 200, session_id |-> session_id,
                     session |-> to_dict(sessions[session_id])]
               ELSE [op |-> "get", status |-> 404]
    /\ UNCHANGED <<sessions, now, issued, darwin, startup>>

\* a delete that reports success whether the session was there or not
DeleteSession_mut(session_id) ==
    /\ sessions' = delete_session(sessions, session_id)
    /\ last' = [op |-> "delete", status |-> 200, session_id |-> session_id]
    /\ UNCHANGED <<now, issued, darwin, startup>>

\* DELETE /session/{session_id}
DeleteSession(session_id) ==
    /\ sessions' = delete_session(sessions, session_id)
    /\ last' = IF session_id \in DOMAIN sessions
               THEN [op |-> "delete", status |-> 200,
                     session_id |-> session_id]
               ELSE [op |-> "delete", status |-> 404]
    /\ UNCHANGED <<now, issued, darwin, startup>>

\* POST /session/mode
SwitchMode(session_id, mode) ==
    /\ IF SessionMode(mode) = ValueError
       THEN /\ last' = [op |-> "mode", session_id |-> session_id,
                        mode |-> mode, status |-> 400]
            /\ UNCHANGED sessions
       ELSE /\ sessions' = switch_mode(sessions, session_id,
                                       SessionMode(mode), now)
            /\ last' = IF session_id \in DOMAIN sessions
                       THEN [op |-> "mode", status |-> 200,
                             session_id |-> session_id, mode |-> mode]
                       ELSE [op |-> "mode", status |-> 404]
    /\ UNCHANGED <<now, issued, darwin, startup>>

\* POST /session/attach
AttachSession(session_id, client_pid) ==
    /\ sessions' = attach(sessions, session_id, client_pid)
    /\ last' = IF attach_count(sessions, session_id, client_pid) < 0
               THEN [op |-> "attach", status |-> 404]
               ELSE [op |-> "attach", session_id |-> session_id,
                     client_pid |-> client_pid, status |-> 200,
                     attached |->
                        attach_count(sessions, session_id, client_pid)]
    /\ UNCHANGED <<now, issued, darwin, startup>>

\* a detach handler that calls the store's leave
DetachSession_mut(session_id, client_pid) ==
    /\ sessions' = leave(sessions, session_id, client_pid)
    /\ last' = IF ~leave_result(sessions, session_id, client_pid).found
               THEN [op |-> "detach", status |-> 404]
               ELSE [op |-> "detach", session_id |-> session_id,
                     client_pid |-> client_pid, status |-> 200,
                     closed |-> FALSE]
    /\ UNCHANGED <<now, issued, darwin, startup>>

\* POST /session/detach
DetachSession(session_id, client_pid) ==
    /\ sessions' = detach(sessions, session_id, client_pid)
    /\ last' = IF ~detach_result(sessions, session_id, client_pid).found
               THEN [op |-> "detach", status |-> 404]
               ELSE [op |-> "detach", session_id |-> session_id,
                     client_pid |-> client_pid, status |-> 200,
                     closed |-> FALSE]
    /\ UNCHANGED <<now, issued, darwin, startup>>

\* a leave handler that answers closed for every session it finds
LeaveSession_mut(session_id, client_pid) ==
    /\ sessions' = leave(sessions, session_id, client_pid)
    /\ last' = IF ~leave_result(sessions, session_id, client_pid).found
               THEN [op |-> "leave", status |-> 404]
               ELSE [op |-> "leave", session_id |-> session_id,
                     client_pid |-> client_pid, status |-> 200,
                     closed |-> TRUE]
    /\ UNCHANGED <<now, issued, darwin, startup>>

\* POST /session/leave
LeaveSession(session_id, client_pid) ==
    /\ sessions' = leave(sessions, session_id, client_pid)
    /\ last' = IF ~leave_result(sessions, session_id, client_pid).found
               THEN [op |-> "leave", status |-> 404]
               ELSE [op |-> "leave", session_id |-> session_id,
                     client_pid |-> client_pid, status |-> 200,
                     closed |->
                        leave_result(sessions, session_id, client_pid).closed]
    /\ UNCHANGED <<now, issued, darwin, startup>>

\* the query of a suggest request and the message of a chat request
Queries == {"list files"}
Messages == {"hello"}

\* what the provider's get_command_suggestion returns
RawTexts ==
    {<<"{", "\"action\":\"command\",\"command\":\"ls -la\"", "}">>,
     <<"{", "\"action\":\"ASK\",\"question\":\"which directory?\"", "}">>,
     <<"{", "\"action\":\"Refuse\",\"reason\":\"too risky\"", "}">>,
     <<"ask:", SP, "which", SP, "directory?">>,
     <<"{", "\"action\":\"command\",\"command\":\"ls\\npwd\"", "}">>,
     <<"echo", SP, DQ, "unterminated">>,
     <<"find", SP, ".", SP, "-printf", SP, "x">>,
     <<"ls", CR, "pwd">>,
     <<"echo", SP, FENCE, "x", FENCE>>}

\* one raw text for each kind of record suggest_command adds to the history:
\* a suggestion, a question, a refusal, a reformat request
RecordRaws ==
    {<<"{", "\"action\":\"command\",\"command\":\"ls -la\"", "}">>,
     <<"{", "\"action\":\"ASK\",\"question\":\"which directory?\"", "}">>,
     <<"{", "\"action\":\"Refuse\",\"reason\":\"too risky\"", "}">>,
     <<"{", "\"action\":\"command\",\"command\":\"ls\\npwd\"", "}">>}

\* what the provider's chat answers to the safety prompt
SafetyAnswers == {<<"Warning:", SP, "modifies files">>, <<"maybe">>, Raised}

\* what the provider's chat answers to a chat message
ChatAnswers == {<<"hi", SP, "there">>}

\* chat answers no command validation would let through and a safety check
\* would not call safe: a fenced, two-line, unbalanced text with blanks
\* around it, and a provider failure text
ChatTexts ==
    {<<"hi", SP, "there">>,
     <<SP, FENCE, "rm", SP, "-rf", SP, "/", NL, "(", FENCE, NL>>,
     <<"Error", SP, "connecting", SP, "to", SP, "Ollama:", SP, "refused">>}

\* the session has room for one more history record
HasRoom(session_id) ==
    session_id \in DOMAIN sessions
        => Len(sessions[session_id].history) < MaxHistory

\* session.add_to_history(entry) on the session of the store
Record(session_id, entry) ==
    sessions' = [sessions EXCEPT ![session_id] = add_to_history(@, entry, now)]

\* suggest_command from the parsed decision on, for a decision that is
\* neither ask nor refuse
SuggestCommand(session_id, query, raw, answer) ==
    LET decision == parse_decision(raw)
        command == OrElse(decision.command, NoCommand)
        reject(msg) ==
            /\ Record(session_id, [type |-> "clarify_request",
                                   question |-> msg])
            /\ last' = [op |-> "suggest", session_id |-> session_id,
                        raw |-> raw, status |-> 200,
                        safety_calls |-> 0, provider_calls |-> 1,
                        body |-> [status |-> "need_more_info",
                                  question |-> msg]]
    IN  IF NotOneLine(command) THEN reject(ReformatOneLine)
        ELSE IF ~balanced_quotes_and_parens(command)
             THEN reject(ReformatBalance)
        ELSE IF GnuOnly(command, darwin) THEN reject(ReformatGnu)
        ELSE /\ Record(session_id,
                    [type |-> "command_suggestion", query |-> query,
                     assistant_decision |-> decision, command |-> command,
                     safety_level |-> check_command(command, answer)])
             /\ last' = [op |-> "suggest", session_id |-> session_id,
                         raw |-> raw, status |-> 200,
                         safety_calls |-> 1, provider_calls |-> 2,
                         body |-> [status |-> "success", command |-> command,
                                   safety_level |->
                                       check_command(command, answer)]]

\* POST /command/suggest
Suggest(session_id, query, raw, answer) ==
    /\ HasRoom(session_id)
    /\ IF session_id \notin DOMAIN sessions
       THEN /\ last' = [op |-> "suggest", status |-> 404,
                        provider_calls |-> 0]
            /\ UNCHANGED sessions
       ELSE LET decision == parse_decision(raw)
            IN  IF decision.action = <<"ask">>
                THEN /\ Record(session_id,
                            [type |-> "clarify_request",
                             question |-> OrElse(decision.question,
                                                 MoreDetails)])
                     /\ last' = [op |-> "suggest",
                                 session_id |-> session_id, raw |-> raw,
                                 status |-> 200,
                                 safety_calls |-> 0, provider_calls |-> 1,
                                 body |-> [status |-> "need_more_info",
                                           question |->
                                               OrElse(decision.question,
                                                      MoreDetails)]]
                ELSE IF decision.action = <<"refuse">>
                THEN /\ Record(session_id,
                            [type |-> "refuse",
                             reason |-> OrElse(decision.reason,
                                               CannotProceed)])
                     /\ last' = [op |-> "suggest",
                                 session_id |-> session_id, raw |-> raw,
                                 status |-> 400,
                                 safety_calls |-> 0, provider_calls |-> 1,
                                 body |-> [detail |->
                                               OrElse(decision.reason,
                                                      CannotProceed)]]
                ELSE SuggestCommand(session_id, query, raw, answer)
    /\ UNCHANGED <<now, issued, darwin, startup>>

\* a chat handler that trims the provider's response
Chat_mut(session_id, message, response) ==
    /\ HasRoom(session_id)
    /\ IF session_id \notin DOMAIN sessions
       THEN /\ last' = [op |-> "chat", status |-> 404,
                        provider_calls |-> 0]
            /\ UNCHANGED sessions
       ELSE /\ Record(session_id, [type |-> "chat", message |-> message,
                                   response |-> Strip(response)])
            /\ last' = [op |-> "chat", session_id |-> session_id,
                        status |-> 200,
                        safety_calls |-> 0, provider_calls |-> 1,
                        body |-> [response |-> Strip(response)]]
    /\ UNCHANGED <<now, issued, darwin, startup>>

\* POST /chat
Chat(session_id, message, response) ==
    /\ HasRoom(session_id)
    /\ IF session_id \notin DOMAIN sessions
       THEN /\ last' = [op |-> "chat", status |-> 404,
                        provider_calls |-> 0]
            /\ UNCHANGED sessions
       ELSE /\ Record(session_id, [type |-> "chat", message |-> message,
                                   response |-> response])
            /\ last' = [op |-> "chat", session_id |-> session_id,
                        status |-> 200,
                        safety_calls |-> 0, provider_calls |-> 1,
                        body |-> [response |-> response]]
    /\ UNCHANGED <<now, issued, darwin, startup>>

\* session_manager.cleanup_stale_sessions(max_age) and the answer built
\* from its count; at is the current_time the call reads
Sweep(max_age) ==
    /\ sessions' = cleanup_stale_sessions(sessions, max_age, now)
    /\ last' = [op |-> "cleanup", status |-> 200, max_age |-> max_age,
                at |-> now,
                cleaned_sessions |->
                    Cardinality(stale_sessions(sessions, max_age, now))]
    /\ UNCHANGED <<now, issued, darwin, startup>>

\* POST /cleanup: the default threshold
CleanupSessions == Sweep(DefaultMaxAge)

\* cleanup_stale_sessions called with a threshold of its caller's
SweepStale(max_age) == Sweep(max_age)

\* time passes between two requests: d ticks
Tick(d) ==
    /\ now + d <= MaxTime
    /\ d = 1 => (now % LongStep) < MaxShort
    /\ now' = now + d
    /\ UNCHANGED <<sessions, issued, last, darwin, startup>>

\* no thread is inside the provider, no download is registered
NoPulls ==
    /\ OLLAMA_PULLING = {}
    /\ OLLAMA_PULL_LOCK = <<>>
    /\ threads = <<>>

\* the daemon's module state once "import server" has run with a Gemini
\* key in the environment: the state the request handlers start from
Started ==
    /\ settings = [default |-> None, gemini_key |-> "key",
                   claude_key |-> None, ollama_model |-> None,
                   local |-> TRUE, autostart |-> TRUE, binary |-> FALSE]
    /\ provider = create_provider(settings, FALSE, FALSE)
    /\ AUTOSTARTED_OLLAMA_PROC = None
    /\ ollama = [up |-> FALSE, installed |-> FALSE, child |-> "none",
                 signals |-> <<>>]
    /\ NoPulls

\* server.py: ai_provider = AIProviderFactory.create_provider(), run once
\* when the module is loaded.  popen_ok: subprocess.Popen did not raise;
\* comes_up: the spawned server answers /api/version before tags are read
CreateProvider(popen_ok, comes_up) ==
    /\ provider = Unset
    /\ LET spawned == /\ ollama_built(settings)
                      /\ ollama_started(settings)
                      /\ try_start_ollama(settings, ollama.up)
                      /\ popen_ok
           up_after == ollama.up \/ (spawned /\ comes_up)
       IN  /\ provider' = create_provider(settings, up_after,
                                          ollama.installed)
           /\ AUTOSTARTED_OLLAMA_PROC' = IF spawned THEN "child" ELSE None
           /\ ollama' = [ollama EXCEPT
                            !.child = IF spawned THEN "alive" ELSE "none"]
    /\ UNCHANGED <<sessions, now, issued, last, darwin, settings, pulling>>

\* the spawned server exits on its own
ChildExits ==
    /\ ollama.child = "alive"
    /\ ollama' = [ollama EXCEPT !.child = "exited"]
    /\ UNCHANGED <<sessions, now, issued, last, darwin, settings, provider,
                   AUTOSTARTED_OLLAMA_PROC, pulling>>

\* a signal sent by stop_autostarted_ollama: os.killpg to the group of the
\* process, or proc.terminate() / proc.kill() when os.killpg raised
Signal(sig, killpg_ok) ==
    [sig |-> sig, to |-> AUTOSTARTED_OLLAMA_PROC,
     by |-> IF killpg_ok THEN "killpg" ELSE "proc"]

\* a shutdown that force-kills without looking at the process again
SignalsSent_mut(term_ok, exits, kill_ok) ==
    IF AUTOSTARTED_OLLAMA_PROC = None \/ ollama.child # "alive"
    THEN <<>>
    ELSE <<Signal("SIGTERM", term_ok), Signal("SIGKILL", kill_ok)>>

\* the signals one stop_autostarted_ollama() sends: none without a handle
\* or when proc.poll() shows the process has exited
SignalsSent(term_ok, exits, kill_ok) ==
    IF AUTOSTARTED_OLLAMA_PROC = None \/ ollama.child # "alive"
    THEN <<>>
    ELSE IF exits THEN <<Signal("SIGTERM", term_ok)>>
    ELSE <<Signal("SIGTERM", term_ok), Signal("SIGKILL", kill_ok)>>

\* a shutdown that keeps the handle
OnShutdown_mut(term_ok, exits, kill_ok) ==
    /\ provider \notin {Unset, RuntimeError}
    /\ UNCHANGED AUTOSTARTED_OLLAMA_PROC
    /\ ollama' = IF SignalsSent(term_ok, exits, kill_ok) = <<>> THEN ollama
                 ELSE [ollama EXCEPT
                          !.child = "exited",
                          !.signals =
                              @ \o SignalsSent(term_ok, exits, kill_ok)]
    /\ last' = [op |-> "shutdown",
                sent |-> SignalsSent(term_ok, exits, kill_ok)]
    /\ UNCHANGED <<sessions, now, issued, darwin, settings, provider,
                   pulling>>

\* _on_shutdown: stop_autostarted_ollama() on a POSIX system, in a daemon
\* that came up.  exits: the process exits within the timeout after
\* SIGTERM; term_ok, kill_ok: os.killpg did not raise.  The handle is
\* cleared on every path that had one (return after poll, finally)
OnShutdown(term_ok, exits, kill_ok) ==
    /\ provider \notin {Unset, RuntimeError}
    /\ AUTOSTARTED_OLLAMA_PROC' = None
    /\ ollama' = IF SignalsSent(term_ok, exits, kill_ok) = <<>> THEN ollama
                 ELSE [ollama EXCEPT
                          !.child = "exited",
                          !.signals =
                              @ \o SignalsSent(term_ok, exits, kill_ok)]
    /\ last' = [op |-> "shutdown",
                sent |-> SignalsSent(term_ok, exits, kill_ok)]
    /\ UNCHANGED <<sessions, now, issued, darwin, settings, provider,
                   pulling>>

----------------------------------------------------------------------------
(* ai_provider.py: what the three providers make of a backend's reply *)

\* the replies of a backend to the generation request: a well-formed
\* payload, the transport failures, the statuses that are not 2xx, a body
\* that is not JSON, a JSON array, an object without the expected field,
\* and a text field that holds null or a number
Replies ==
    {"ok", "connection error", "timeout", "status 429", "status 500",
     "not json", "json array", "no text field", "null text", "number text"}

Failures == Replies \ {"ok"}

\* the text of a well-formed payload
ReplyText == <<SP, "{", "\"action\":\"command\",\"command\":\"ls\"", "}", NL>>

\* a Python value: a str with its text, another type, or an exception
\* that leaves the function
Str(text) == [type |-> "str", value |-> text]
NotStr(type) == [type |-> type, value |-> <<"<" \o type \o ">">>]
Raise(exception) == [type |-> "raise", value |-> <<exception>>]

\* OllamaProvider._make_request with the model installed: every exception
\* inside the try block becomes a text; response.json().get("response", "")
\* is returned as it is
ollama_make_request(reply) ==
    IF reply = "ok" THEN Str(ReplyText)
    ELSE IF reply = "no text field" THEN Str(<<>>)
    ELSE IF reply = "null text" THEN NotStr("NoneType")
    ELSE IF reply = "number text" THEN NotStr("int")
    ELSE Str(<<"Error connecting to Ollama:", SP, reply>>)

\* GeminiProvider._make_request: the text is stripped inside the try block
gemini_make_request(reply) ==
    IF reply = "ok" THEN Str(Strip(ReplyText))
    ELSE IF reply = "status 429"
    THEN Str(<<"Gemini rate limit exceeded:", SP, reply>>)
    ELSE IF reply = "status 500" THEN Str(<<"Gemini HTTP error:", SP, reply>>)
    ELSE Str(<<"Error connecting to Gemini:", SP, reply>>)

\* ClaudeProvider._make_request: the first text part that is not empty,
\* stripped inside the try block, or the empty text
claude_make_request(reply) ==
    IF reply = "ok" THEN Str(Strip(ReplyText))
    ELSE IF reply \in {"no text field", "null text"} THEN Str(<<>>)
    ELSE Str(<<"Error connecting to Claude:", SP, reply>>)

make_request(backend, reply) ==
    IF backend = "OllamaProvider" THEN ollama_make_request(reply)
    ELSE IF backend = "GeminiProvider" THEN gemini_make_request(reply)
    ELSE claude_make_request(reply)

\* get_command_suggestion: response.strip() outside of any try block
get_command_suggestion(backend, reply) ==
    LET response == make_request(backend, reply)
    IN  IF response.type = "str" THEN Str(Strip(response.value))
        ELSE Raise("AttributeError")

\* chat: the value of _make_request as it is
chat(backend, reply) == make_request(backend, reply)

\* raw texts of a provider: a JSON object or a legacy text, bare, padded,
\* fenced with and without a language tag, or with prose around it, a
\* stray closing brace or a second object after it
ParseCores ==
    {<<"{", b, "}">> : b \in DOMAIN JsonBodies}
    \cup {<<"df", SP, "-h">>,
          <<"ask:", SP, "which", SP, "directory?">>,
          <<"ASK:", SP, "which", SP, "directory?">>,
          <<"Ask:", SP, SP, "why?">>,
          <<>>}

ParseHeads == {<<>>, <<SP, NL>>, <<FENCE, "json", NL>>, <<FENCE, NL>>,
               <<"Sure", SP>>}

ParseTails ==
    {<<>>, <<NL>>, <<NL, FENCE>>, <<NL, FENCE, SP>>, <<SP, "ok">>,
     <<SP, "ok", SP, "}">>,
     <<SP, "or", SP, "{", "\"action\":\"ask\"", "}">>}

ParseTexts ==
    {head \o core \o tail :
        head \in ParseHeads, core \in ParseCores, tail \in ParseTails}

\* decision = _parse_decision(raw) of suggest_command
ParseDecision(raw) ==
    /\ last' = [op |-> "parse_decision", raw |-> raw,
                decision |-> parse_decision(raw)]
    /\ UNCHANGED <<sessions, now, issued, darwin, startup>>

\* the length of the commands built from quotes, parentheses and escapes
MaxCommand == 3

\* the characters the balance check tells apart, and one other
QuoteTokens == {SQ, DQ, BS, "(", ")", "x"}

\* every command of up to MaxCommand of these characters
ShortCommands == UNION {[1..n -> QuoteTokens] : n \in 0..MaxCommand}

\* commands of a provider: quoted, nested, escaped, substituted, two-line,
\* and one for each GNU-only idiom
LongCommands ==
    {<<"echo", SP, DQ, "it", SQ, "s", SP, "fine", DQ>>,
     <<"find", SP, ".", SP, "-name", SP, DQ, "*.py", DQ>>,
     <<"echo", SP, DQ, "unterminated">>,
     <<"echo", SP, "$", "(", "ls", ")">>,
     <<"echo", SP, BS, DQ>>,
     <<"ls", NL, "pwd">>,
     <<"ls", NL, DQ>>,
     <<"find", SP, ".", SP, "-printf", SP, "x">>,
     <<"find", SP, ".", SP, "-printf", SP, "(">>,
     <<"sed", SP, "-r", SP, "s/a/b/", SP, "f">>,
     <<"du", SP, "--max-depth=1">>,
     <<"grep", SP, "-P", SP, "x", SP, "f">>,
     <<"grep", SP, "x", SP, "f">>}

\* suggest_command between the parsed command and the safety check: the
\* question of the first validation that rejects the command, or <<>>
Validated(command, is_darwin) ==
    IF NotOneLine(command) THEN ReformatOneLine
    ELSE IF ~balanced_quotes_and_parens(command) THEN ReformatBalance
    ELSE IF GnuOnly(command, is_darwin) THEN ReformatGnu
    ELSE <<>>

\* the validation of one command on the platform of the daemon
ValidateCommand(command) ==
    /\ last' = [op |-> "validate", command |-> command,
                question |-> Validated(command, darwin)]
    /\ UNCHANGED <<sessions, now, issued, darwin, startup>>

\* the commands handed to the safety checker
Commands ==
    {<<"ls", SP, "-la">>,
     <<"pwd">>,
     <<"echo", SP, "hello">>,
     <<"mv", SP, "a", SP, "b">>,
     <<"cp">>,
     <<"chmod">>,
     <<"su">>,
     <<"curl">>,
     <<"sudo", SP, "ls">>,
     <<"rm", SP, "file">>,
     <<SP, "RM", SP, "file", NL>>,
     <<"rm", SP, "-rf", SP, "/">>,
     <<"rm", SP, "-rf", SP, "*">>,
     <<"dd", SP, "if=x", SP, "of=/dev/sda">>,
     <<"echo", SP, "x", SP, ">", SP, "/dev/sda">>,
     <<"sudo", SP, "rm", SP, "-rf", SP, "/">>,
     <<":", "(", ")", "{", SP, ":|:&", SP, "}", ";", ":">>,
     <<"sudo", SP, "rm", SP, "file">>,
     <<"SUDO", SP, SP, "rmdir", SP, "x">>,
     <<"sudo", SP, "mkfs", SP, "/dev/x">>,
     <<"sudo", SP, "dd">>,
     <<"sudo", SP, "fdisk">>,
     <<"sudo", SP, "format">>,
     <<"git", SP, "reset", SP, "--hard">>,
     <<"git", SP, "reset", SP, "--hard", SP, "HEAD~1">>,
     <<"git", SP, "status">>,
     <<>>}

\* what the provider's chat returns for the safety prompt: the three
\* prefixes in several cases, with and without a reason, texts without a
\* prefix, a provider failure text, the empty text, and an exception
Verdicts ==
    {<<"SAFE:", SP, "read only">>,
     <<SP, "safe:", SP, "read only", NL>>,
     <<"Warning:", SP, "modifies files">>,
     <<"WARNING:">>,
     <<"dangerous:", SP>>,
     <<"DANGEROUS:", SP, "modifies files">>,
     <<"maybe">>,
     <<"It", SP, "is", SP, "SAFE:">>,
     <<"Error connecting to Ollama:", SP, "timeout">>,
     <<>>,
     Raised}

\* safety_checker.check_command(command) of suggest_command
CheckCommand(command, answer) ==
    /\ last' = [op |-> "check_command", command |-> command,
                answer |-> answer,
                safety_level |-> Verdict(command, answer).level,
                reason |-> Verdict(command, answer).reason]
    /\ UNCHANGED <<sessions, now, issued, darwin, startup>>

\* POST /command/suggest with the provider called: an exception of
\* get_command_suggestion leaves the handler before anything is recorded
SuggestVia(session_id, query, reply, answer) ==
    LET raw == get_command_suggestion(provider, reply)
    IN  IF session_id \in DOMAIN sessions /\ raw.type = "raise"
        THEN /\ last' = [op |-> "suggest", status |-> 500,
                         error |-> raw.value, reply |-> reply]
             /\ UNCHANGED <<sessions, now, issued, darwin, startup>>
        ELSE Suggest(session_id, query, raw.value, answer)

\* POST /chat with the provider called: a response that is no str is
\* recorded and then rejected by ChatResponse(response=response)
ChatVia(session_id, message, reply) ==
    LET response == chat(provider, reply)
    IN  IF session_id \in DOMAIN sessions /\ response.type # "str"
        THEN /\ HasRoom(session_id)
             /\ Record(session_id, [type |-> "chat", message |-> message,
                                    response |-> response.value])
             /\ last' = [op |-> "chat", status |-> 500,
                         error |-> <<"ValidationError">>, reply |-> reply]
             /\ UNCHANGED <<now, issued, darwin, startup>>
        ELSE Chat(session_id, message, response.value)

----------------------------------------------------------------------------
(* ai_provider.py: OllamaProvider, its requests and background downloads *)

\* the downloads a run may start
MaxPulls == 2

\* the one model name of the one provider of the daemon
Model == "llama3"

\* the threads that call the provider, and the download threads
Requesters == {<<"r", 1>>, <<"r", 2>>}
Workers == {id \in DOMAIN threads : id[1] = "w"}

\* nobody holds _OLLAMA_PULL_LOCK
Free == <<>>

\* what _make_request returns
Generated == "generated"
Downloading == "Downloading Ollama model in background"
OllamaError == "Error connecting to Ollama"

\* _tags(): the installed models, [] when the server does not answer
tags == IF ollama.up /\ ollama.installed THEN {Model} ELSE {}

\* a thread at a position; next is its position after the lock is released
At(pc, next, calls, result) ==
    [pc |-> pc, next |-> next, calls |-> calls, result |-> result]

Goto(t, pc) == [threads EXCEPT ![t].pc = pc]

\* get_command_suggestion or chat calls _make_request on a thread
MakeRequest(t) ==
    /\ t \in Requesters
    /\ t \in DOMAIN threads => threads[t].pc = "done"
    /\ Cardinality(Workers) < MaxPulls
    /\ threads' = (t :> At("ensure", None, 0, None)) @@ threads
    /\ UNCHANGED <<OLLAMA_PULLING, OLLAMA_PULL_LOCK>>

\* an _ensure_model that downloads on the calling thread
EnsureModel_mut(t) ==
    /\ t \in DOMAIN threads
    /\ threads[t].pc = "ensure"
    /\ threads' = IF Model \in tags THEN Goto(t, "generate")
                  ELSE Goto(t, "pull")
    /\ UNCHANGED <<OLLAMA_PULLING, OLLAMA_PULL_LOCK>>

\* _ensure_model: the model is installed, or _pull_model_background is
\* entered and _make_request will return the Downloading text
EnsureModel(t) ==
    /\ t \in DOMAIN threads
    /\ threads[t].pc = "ensure"
    /\ threads' = IF Model \in tags THEN Goto(t, "generate")
                  ELSE Goto(t, "acquire")
    /\ UNCHANGED <<OLLAMA_PULLING, OLLAMA_PULL_LOCK>>

\* requests.post(.../api/generate): 404 when the model is not there, else
\* the text generated, or any other failure (fails); a 404 enters
\* _pull_model_background and nothing is posted again
Generate(t, fails) ==
    /\ t \in DOMAIN threads
    /\ threads[t].pc = "generate"
    /\ threads' =
         [threads EXCEPT ![t] =
            IF Model \notin tags
            THEN At("acquire", None, @.calls + 1, None)
            ELSE IF fails THEN At("done", None, @.calls + 1, OllamaError)
            ELSE At("done", None, @.calls + 1, Generated)]
    /\ UNCHANGED <<OLLAMA_PULLING, OLLAMA_PULL_LOCK>>

\* a with-statement that enters without the lock
Acquire_mut(t) ==
    /\ t \in DOMAIN threads
    /\ threads[t].pc = "acquire"
    /\ OLLAMA_PULL_LOCK' = t
    /\ threads' = Goto(t, IF t \in Workers THEN "discard" ELSE "check")
    /\ UNCHANGED OLLAMA_PULLING

\* with _OLLAMA_PULL_LOCK: of _pull_model_background and of its worker
Acquire(t) ==
    /\ t \in DOMAIN threads
    /\ threads[t].pc = "acquire"
    /\ OLLAMA_PULL_LOCK = Free
    /\ OLLAMA_PULL_LOCK' = t
    /\ threads' = Goto(t, IF t \in Workers THEN "discard" ELSE "check")
    /\ UNCHANGED OLLAMA_PULLING

\* if model in _OLLAMA_PULLING: return
Check(t) ==
    /\ t \in DOMAIN threads
    /\ threads[t].pc = "check"
    /\ threads' = IF Model \in OLLAMA_PULLING
                  THEN [threads EXCEPT ![t].pc = "release",
                                       ![t].next = "return"]
                  ELSE Goto(t, "add")
    /\ UNCHANGED <<OLLAMA_PULLING, OLLAMA_PULL_LOCK>>

\* _OLLAMA_PULLING.add(model)
Add(t) ==
    /\ t \in DOMAIN threads
    /\ threads[t].pc = "add"
    /\ OLLAMA_PULLING' = OLLAMA_PULLING \cup {Model}
    /\ threads' = [threads EXCEPT ![t].pc = "release", ![t].next = "start"]
    /\ UNCHANGED OLLAMA_PULL_LOCK

\* the end of a with-statement; a request whose model is being downloaded
\* by another thread returns the Downloading text
Release(t) ==
    /\ t \in DOMAIN threads
    /\ threads[t].pc = "release"
    /\ OLLAMA_PULL_LOCK' = Free
    /\ threads' =
         [threads EXCEPT ![t] =
            IF @.next = "start" THEN At("start", None, @.calls, None)
            ELSE IF @.next = "return"
            THEN At("done", None, @.calls, Downloading)
            ELSE At("done", None, @.calls, @.result)]
    /\ UNCHANGED OLLAMA_PULLING

\* threading.Thread(target=worker, daemon=True).start(), and _make_request
\* returns the Downloading text
Start(t) ==
    /\ t \in DOMAIN threads
    /\ threads[t].pc = "start"
    /\ threads' =
         (<<"w", Cardinality(Workers) + 1>> :> At("pull", None, 0, None))
         @@ [threads EXCEPT ![t] = At("done", None, @.calls, Downloading)]
    /\ UNCHANGED <<OLLAMA_PULLING, OLLAMA_PULL_LOCK>>

PullOutcomes == {"pulled", "refused", "raised"}

\* worker: _pull_model(model) posts /api/pull and waits for its end, up to
\* ten minutes: True on status 200, False otherwise and on any exception
PullModel(t, outcome) ==
    /\ t \in DOMAIN threads
    /\ threads[t].pc = "pull"
    /\ threads' = [threads EXCEPT ![t] = At("acquire", None, 0, outcome)]
    /\ ollama' = IF outcome = "pulled" /\ ollama.up
                 THEN [ollama EXCEPT !.installed = TRUE]
                 ELSE ollama
    /\ UNCHANGED <<OLLAMA_PULLING, OLLAMA_PULL_LOCK>>

\* a worker that takes the name out after a download that succeeded only
Discard_mut(t) ==
    /\ t \in DOMAIN threads
    /\ threads[t].pc = "discard"
    /\ OLLAMA_PULLING' = IF threads[t].result = "pulled"
                         THEN OLLAMA_PULLING \ {Model}
                         ELSE OLLAMA_PULLING
    /\ threads' = [threads EXCEPT ![t].pc = "release", ![t].next = "end"]
    /\ UNCHANGED OLLAMA_PULL_LOCK

\* worker, finally: _OLLAMA_PULLING.discard(model)
Discard(t) ==
    /\ t \in DOMAIN threads
    /\ threads[t].pc = "discard"
    /\ OLLAMA_PULLING' = OLLAMA_PULLING \ {Model}
    /\ threads' = [threads EXCEPT ![t].pc = "release", ![t].next = "end"]
    /\ UNCHANGED OLLAMA_PULL_LOCK

\* the model is removed from the machine ("ollama rm")
ModelRemoved ==
    /\ ollama.installed
    /\ ollama' = [ollama EXCEPT !.installed = FALSE]
    /\ UNCHANGED pulling

\* the steps of a thread that leave the server alone
ThreadStep(t) ==
    /\ \/ MakeRequest(t)
       \/ EnsureModel(t)
       \/ \E fails \in BOOLEAN : Generate(t, fails)
       \/ Acquire(t)
       \/ Check(t)
       \/ Add(t)
       \/ Release(t)
       \/ Start(t)
       \/ Discard(t)
    /\ UNCHANGED ollama

Init ==
    /\ sessions = <<>>
    /\ now = 0
    /\ issued = {}
    /\ last = NoResponse
    /\ darwin \in BOOLEAN
    /\ Started

\* the daemon on a platform that is not macOS
InitStore == Init /\ ~darwin

----------------------------------------------------------------------------
(* server.py: a suggest or chat handler around its call of the provider *)

\* the coroutine of the handler that is inside its provider call
Handler == "handler"

\* no handler is inside a provider call
Idle == Handler \notin DOMAIN threads

\* a handler that gives the event loop to other requests while the
\* provider works
ProviderCallYields_mut == TRUE

\* suggest_command and chat are coroutines that call the provider with a
\* blocking function call and hold no await: the one event loop of
\* uvicorn.run(app) serves no other request before the handler returns
ProviderCallYields == FALSE

\* the event loop can start the handler of another request
LoopFree == Idle \/ ProviderCallYields

\* the record suggest_command adds to the history for the provider's text
SuggestEntry(query, raw, answer) ==
    LET decision == parse_decision(raw)
        command == OrElse(decision.command, NoCommand)
    IN  IF decision.action = <<"ask">>
        THEN [type |-> "clarify_request",
              question |-> OrElse(decision.question, MoreDetails)]
        ELSE IF decision.action = <<"refuse">>
        THEN [type |-> "refuse",
              reason |-> OrElse(decision.reason, CannotProceed)]
        ELSE IF Validated(command, darwin) # <<>>
        THEN [type |-> "clarify_request",
              question |-> Validated(command, darwin)]
        ELSE [type |-> "command_suggestion", query |-> query,
              assistant_decision |-> decision, command |-> command,
              safety_level |-> check_command(command, answer)]

\* suggest_command or chat up to its provider call: the handler keeps the
\* session object session_manager.get_session returned
RequestBegins(op, session_id, text) ==
    /\ LoopFree /\ Idle
    /\ HasRoom(session_id)
    /\ IF session_id \notin DOMAIN sessions
       THEN /\ last' = [op |-> op, status |-> 404, provider_calls |-> 0]
            /\ UNCHANGED threads
       ELSE /\ threads' = Handler :> [pc |-> "provider", op |-> op,
                                      session_id |-> session_id,
                                      session |-> sessions[session_id],
                                      text |-> text]
            /\ UNCHANGED last
    /\ UNCHANGED <<sessions, now, issued, darwin, settings, provider,
                   AUTOSTARTED_OLLAMA_PROC, ollama, OLLAMA_PULLING,
                   OLLAMA_PULL_LOCK>>

\* the handler from the return of the provider on: session.add_to_history
\* on the object it kept, which changes the store's session when the store
\* still holds that object (objects are told apart by their fields)
RequestEnds(raw, answer) ==
    /\ ~Idle
    /\ LET h == threads[Handler]
           entry == IF h.op = "chat"
                    THEN [type |-> "chat", message |-> h.text,
                          response |-> raw]
                    ELSE SuggestEntry(h.text, raw, answer)
       IN  /\ sessions' =
                 IF /\ h.session_id \in DOMAIN sessions
                    /\ sessions[h.session_id] = h.session
                 THEN [sessions EXCEPT ![h.session_id] =
                           add_to_history(h.session, entry, now)]
                 ELSE sessions
           /\ last' = [op |-> h.op, session_id |-> h.session_id,
                       status |-> IF entry.type = "refuse" THEN 400 ELSE 200,
                       entry |-> entry]
    /\ threads' = <<>>
    /\ UNCHANGED <<now, issued, darwin, settings, provider,
                   AUTOSTARTED_OLLAMA_PROC, ollama, OLLAMA_PULLING,
                   OLLAMA_PULL_LOCK>>

\* the requests of a terminal, each handler run when the event loop is
\* free
NextServe ==
    \/ LoopFree /\ Tick(1)
    \/ \E pid \in Pids, cwd \in Cwds : LoopFree /\ CreateSession(pid, cwd)
    \/ \E session_id \in RequestIds :
            LoopFree /\ DeleteSession(session_id)
    \/ \E max_age \in MaxAges : LoopFree /\ SweepStale(max_age)
    \/ \E session_id \in RequestIds, query \in Queries :
            RequestBegins("suggest", session_id, query)
    \/ \E session_id \in RequestIds, message \in Messages :
            RequestBegins("chat", session_id, message)
    \/ \E raw \in RecordRaws \cup ChatAnswers : RequestEnds(raw, Raised)

SpecServe == InitStore /\ [][NextServe]_vars

----------------------------------------------------------------------------
(* Specifications *)

\* the daemon serving one terminal for a short time: every handler of
\* server.py whose store operation is in session.py; the provider answers
\* one raw text for each kind of history record and is out of reach for the
\* safety prompt
Next ==
    \/ Tick(1)
    \/ \E pid \in Pids, cwd \in Cwds :
            /\ DOMAIN sessions \subseteq {SessionId(pid, now)}
            /\ CreateSession(pid, cwd)
    \/ \E session_id \in RequestIds : GetSession(session_id)
    \/ \E session_id \in RequestIds : DeleteSession(session_id)
    \/ \E session_id \in RequestIds, mode \in ModeStrings :
            SwitchMode(session_id, mode)
    \/ \E session_id \in RequestIds, query \in Queries, raw \in RecordRaws :
            Suggest(session_id, query, raw, Raised)
    \/ \E session_id \in RequestIds, message \in Messages,
          response \in ChatAnswers :
            Chat(session_id, message, response)
    \/ \E max_age \in MaxAges : SweepStale(max_age)

Spec == Init /\ [][Next]_vars

\* one session asked for suggestions: every raw text and every answer to the
\* safety prompt, on both platforms
NextSuggest ==
    \/ \E pid \in Pids, cwd \in Cwds : CreateSession(pid, cwd)
    \/ \E session_id \in RequestIds, query \in Queries, raw \in RawTexts,
          answer \in SafetyAnswers :
            Suggest(session_id, query, raw, answer)

SpecSuggest == Init /\ [][NextSuggest]_vars

\* raw texts whose decision is a command decision without a command: the
\* empty and the blank text, an object whose command is missing or empty,
\* an object with an action that is none of command, ask, refuse and has no
\* command
NoCommandRaws ==
    {<<>>, <<SP, NL>>,
     <<"{", "\"action\":\"command\"", "}">>,
     <<"{", "\"action\":\"command\",\"command\":\"\"", "}">>,
     <<"{", "\"action\":\"explain\"", "}">>}

\* the same with a command: a blank one, one of an object with another
\* action, and objects that ask and refuse without their text
DefaultRaws ==
    NoCommandRaws \cup
    {<<"{", "\"action\":\"command\",\"command\":\" \"", "}">>,
     <<"{", "\"action\":\"explain\",\"command\":\"pwd\"", "}">>,
     <<"{", "\"action\":\"command\",\"command\":\"ls -la\"", "}">>,
     <<"{", "\"action\":\"ask\"", "}">>,
     <<"{", "\"action\":\"refuse\"", "}">>}

\* one session asked for suggestions by a provider that leaves out the
\* command, the question or the reason
NextDefaults ==
    \/ \E pid \in Pids, cwd \in Cwds : CreateSession(pid, cwd)
    \/ \E session_id \in RequestIds, query \in Queries,
          raw \in DefaultRaws, answer \in SafetyAnswers :
            Suggest(session_id, query, raw, answer)

SpecDefaults == Init /\ [][NextDefaults]_vars

\* one session chatted with in both modes, for every kind of chat answer
NextChat ==
    \/ \E pid \in Pids, cwd \in Cwds : CreateSession(pid, cwd)
    \/ \E session_id \in RequestIds, mode \in ModeStrings :
            SwitchMode(session_id, mode)
    \/ \E session_id \in RequestIds, message \in Messages,
          response \in ChatTexts :
            Chat(session_id, message, response)

SpecChat == InitStore /\ [][NextChat]_vars

\* one session and every request that names a session
NextRequests ==
    \/ \E pid \in Pids, cwd \in Cwds : CreateSession(pid, cwd)
    \/ \E session_id \in RequestIds : GetSession(session_id)
    \/ \E session_id \in RequestIds : DeleteSession(session_id)
    \/ \E session_id \in RequestIds, mode \in ModeStrings :
            SwitchMode(session_id, mode)
    \/ \E session_id \in RequestIds, client_pid \in ClientPids :
            AttachSession(session_id, client_pid)
    \/ \E session_id \in RequestIds, client_pid \in ClientPids :
            DetachSession(session_id, client_pid)
    \/ \E session_id \in RequestIds, client_pid \in ClientPids :
            LeaveSession(session_id, client_pid)
    \/ \E session_id \in RequestIds, query \in Queries, raw \in RecordRaws :
            Suggest(session_id, query, raw, Raised)
    \/ \E session_id \in RequestIds, message \in Messages,
          response \in ChatAnswers :
            Chat(session_id, message, response)

SpecRequests == InitStore /\ [][NextRequests]_vars

\* several sessions, created at different seconds, and the requests that
\* name one of them
NextSessions ==
    \/ Tick(LongStep)
    \/ \E pid \in Pids, cwd \in Cwds : CreateSession(pid, cwd)
    \/ \E session_id \in RequestIds : DeleteSession(session_id)
    \/ \E session_id \in RequestIds, mode \in ModeStrings :
            SwitchMode(session_id, mode)
    \/ \E session_id \in RequestIds, query \in Queries :
            Suggest(session_id, query,
                    <<"{", "\"action\":\"command\",\"command\":\"ls -la\"",
                      "}">>,
                    Raised)
    \/ \E session_id \in RequestIds, message \in Messages,
          response \in ChatAnswers :
            Chat(session_id, message, response)

SpecSessions == InitStore /\ [][NextSessions]_vars

\* the session store created in, listed and deleted from
NextList ==
    \/ \E d \in ClockSteps : Tick(d)
    \/ \E pid \in Pids, cwd \in Cwds : CreateSession(pid, cwd)
    \/ ListSessions
    \/ \E session_id \in RequestIds : GetSession(session_id)
    \/ \E session_id \in RequestIds : DeleteSession(session_id)

SpecList == InitStore /\ [][NextList]_vars

\* the daemon before "import server": every setting and environment, the
\* Ollama server reachable or not, the model installed or not
InitProvider ==
    /\ sessions = <<>>
    /\ now = 0
    /\ issued = {}
    /\ last = NoResponse
    /\ darwin = FALSE
    /\ settings \in Settings
    /\ provider = Unset
    /\ AUTOSTARTED_OLLAMA_PROC = None
    /\ ollama \in [up : BOOLEAN, installed : BOOLEAN, child : {"none"},
                   signals : {<<>>}]
    /\ NoPulls

\* startup and shutdown of the daemon
NextProvider ==
    \/ \E popen_ok \in BOOLEAN, comes_up \in BOOLEAN :
            CreateProvider(popen_ok, comes_up)
    \/ ChildExits
    \/ \E term_ok \in BOOLEAN, exits \in BOOLEAN, kill_ok \in BOOLEAN :
            OnShutdown(term_ok, exits, kill_ok)

SpecProvider == InitProvider /\ [][NextProvider]_vars

\* the daemon with an OllamaProvider whose model was installed when the
\* daemon started
InitPull ==
    /\ sessions = <<>>
    /\ now = 0
    /\ issued = {}
    /\ last = NoResponse
    /\ darwin = FALSE
    /\ settings = [default |-> "ollama", gemini_key |-> None,
                   claude_key |-> None, ollama_model |-> Model,
                   local |-> TRUE, autostart |-> TRUE, binary |-> FALSE]
    /\ ollama = [up |-> TRUE, installed |-> TRUE, child |-> "none",
                 signals |-> <<>>]
    /\ provider = create_provider(settings, ollama.up, ollama.installed)
    /\ AUTOSTARTED_OLLAMA_PROC = None
    /\ NoPulls

\* requests on two threads and the downloads they start
NextPull ==
    \/ \E t \in Requesters \cup Workers :
            /\ ThreadStep(t)
            /\ UNCHANGED <<sessions, now, issued, last, darwin, settings,
                           provider, AUTOSTARTED_OLLAMA_PROC>>
    \/ \E t \in Workers, outcome \in PullOutcomes :
            /\ PullModel(t, outcome)
            /\ UNCHANGED <<sessions, now, issued, last, darwin, settings,
                           provider, AUTOSTARTED_OLLAMA_PROC>>
    \/ /\ ModelRemoved
       /\ UNCHANGED <<sessions, now, issued, last, darwin, settings,
                      provider, AUTOSTARTED_OLLAMA_PROC>>

SpecPull == InitPull /\ [][NextPull]_vars

\* the names a download thread can have: a request is made while fewer
\* than MaxPulls downloads have started, and each request in flight then
\* can start one
WorkerIds ==
    {<<"w", i>> : i \in 1..(MaxPulls + Cardinality(Requesters) - 1)}

\* a step of a thread that is inside the provider or a download
Proceeds(t) ==
    /\ t \in DOMAIN threads
    /\ threads[t].pc # "done"
    /\ \/ ThreadStep(t)
       \/ \E outcome \in PullOutcomes : PullModel(t, outcome)
    /\ UNCHANGED <<sessions, now, issued, last, darwin, settings, provider,
                   AUTOSTARTED_OLLAMA_PROC>>

\* a thread that waits for _OLLAMA_PULL_LOCK gets it
Locks(t) ==
    /\ Acquire(t)
    /\ UNCHANGED <<sessions, now, issued, last, darwin, settings, provider,
                   AUTOSTARTED_OLLAMA_PROC, ollama>>

\* the same daemon with its threads scheduled: a thread that can run does
\* run, the POST of /api/pull ends (timeout=600), and a thread that waits
\* for the lock gets it when the lock is released again and again; no
\* request has to arrive
SpecPullFair ==
    /\ SpecPull
    /\ \A t \in Requesters \cup WorkerIds :
          WF_vars(Proceeds(t)) /\ SF_vars(Locks(t))

\* the daemon with each of the three providers, its backend reachable
InitBackend ==
    /\ sessions = <<>>
    /\ now = 0
    /\ issued = {}
    /\ last = NoResponse
    /\ darwin = FALSE
    /\ \E default \in {"gemini", "claude", "ollama"} :
          settings = [default |-> default, gemini_key |-> "key",
                      claude_key |-> "key", ollama_model |-> Model,
                      local |-> TRUE, autostart |-> TRUE, binary |-> FALSE]
    /\ ollama = [up |-> TRUE, installed |-> TRUE, child |-> "none",
                 signals |-> <<>>]
    /\ provider = create_provider(settings, ollama.up, ollama.installed)
    /\ AUTOSTARTED_OLLAMA_PROC = None
    /\ NoPulls

\* suggestions and chats whose provider is called and whose backend replies
\* or fails
NextBackend ==
    \/ \E pid \in Pids, cwd \in Cwds :
            /\ DOMAIN sessions \subseteq {SessionId(pid, now)}
            /\ CreateSession(pid, cwd)
    \/ \E session_id \in RequestIds, query \in Queries, reply \in Replies :
            SuggestVia(session_id, query, reply, Raised)
    \/ \E session_id \in RequestIds, message \in Messages,
          reply \in Replies :
            ChatVia(session_id, message, reply)

SpecBackend == InitBackend /\ [][NextBackend]_vars

\* the safety checker of the daemon applied to commands, with every answer
\* of the provider
NextSafety ==
    \E command \in Commands, answer \in Verdicts :
        CheckCommand(command, answer)

SpecSafety == InitStore /\ [][NextSafety]_vars

\* the decision parser applied to the raw texts of a provider
NextParse == \E raw \in ParseTexts : ParseDecision(raw)

SpecParse == InitStore /\ [][NextParse]_vars

\* the validation of suggest_command applied to commands, on both platforms
NextValidate ==
    \E command \in ShortCommands \cup LongCommands : ValidateCommand(command)

SpecValidate == Init /\ [][NextValidate]_vars

\* the session store over a long time, with several sessions
NextStore ==
    \/ \E d \in ClockSteps : Tick(d)
    \/ \E pid \in Pids, cwd \in Cwds : CreateSession(pid, cwd)
    \/ \E session_id \in RequestIds : DeleteSession(session_id)
    \/ \E session_id \in RequestIds, mode \in ModeStrings :
            SwitchMode(session_id, mode)
    \/ CleanupSessions
    \/ \E max_age \in MaxAges : SweepStale(max_age)

SpecStore == InitStore /\ [][NextStore]_vars

\* the clients of one session
NextAttach ==
    \/ \E pid \in Pids, cwd \in Cwds : CreateSession(pid, cwd)
    \/ \E session_id \in RequestIds : GetSession(session_id)
    \/ \E session_id \in RequestIds, mode \in ModeStrings :
            SwitchMode(session_id, mode)
    \/ \E session_id \in RequestIds, message \in Messages,
          response \in ChatAnswers :
            Chat(session_id, message, response)
    \/ \E session_id \in RequestIds, client_pid \in ClientPids :
            AttachSession(session_id, client_pid)
    \/ \E session_id \in RequestIds, client_pid \in ClientPids :
            DetachSession(session_id, client_pid)
    \/ \E session_id \in RequestIds, client_pid \in ClientPids :
            LeaveSession(session_id, client_pid)

SpecAttach == InitStore /\ [][NextAttach]_vars

----------------------------------------------------------------------------
(* Properties *)

\* the step is a create request
IsCreate == \E pid \in Pids, cwd \in Cwds : CreateSession(pid, cwd)

\* C1: every create returns an identifier that no earlier create returned,
\* so a create never replaces a session that is in the store.
C1_CreateReturnsFreshId ==
    [][\A pid \in Pids, cwd \in Cwds :
          CreateSession(pid, cwd) =>
              /\ SessionId(pid, now) \notin issued
              /\ SessionId(pid, now) \notin DOMAIN sessions]_vars

\* C2: create answers with success; a get of the returned identifier that
\* follows it returns a session in mode exec, with an empty history, no
\* attached client, and the pid and cwd of the create.
C2_CreateThenGet ==
    /\ [](last.op = "create" =>
            last.status = 200 /\ last.session_id \in DOMAIN sessions)
    /\ [][last.op = "create" /\ GetSession(last.session_id) =>
            /\ last'.status = 200
            /\ last'.session.session_id = last.session_id
            /\ last'.session.mode = "exec"
            /\ last'.session.history = <<>>
            /\ last'.session.attached_clients = {}
            /\ last'.session.pid = last.pid
            /\ last'.session.cwd = last.cwd]_vars

\* a get found a session that was created in this very tick
C2_Witness ==
    /\ last.op = "get" /\ last.status = 200
    /\ last.session.created_at = now
    /\ last.session.history = <<>>

\* C3 as claimed: an attach followed by a leave with the same pid closes the
\* session, whoever else is attached.
C3_AttachLeaveAlwaysCloses ==
    [][last.op = "attach" /\ last.status = 200
          /\ LeaveSession(last.session_id, last.client_pid) =>
              /\ last'.status = 200 /\ last'.closed
              /\ last.session_id \notin DOMAIN sessions']_vars

\* C3: an attach followed by a leave with the same pid, when no other
\* client is attached, answers closed=true and removes the session; an
\* attach followed by a detach with the same pid answers closed=false and
\* the session stays in the store, its attached set without the pid.
C3_AttachThenLeaveOrDetach ==
    [][/\ (/\ last.op = "attach" /\ last.status = 200
           /\ sessions[last.session_id].attached_clients = {last.client_pid}
           /\ LeaveSession(last.session_id, last.client_pid)) =>
              /\ last'.status = 200 /\ last'.closed
              /\ last.session_id \notin DOMAIN sessions'
       /\ (/\ last.op = "attach" /\ last.status = 200
           /\ DetachSession(last.session_id, last.client_pid)) =>
              /\ last'.status = 200 /\ ~last'.closed
              /\ last.session_id \in DOMAIN sessions'
              /\ sessions'[last.session_id].attached_clients =
                    sessions[last.session_id].attached_clients
                        \ {last.client_pid}]_vars

\* a detach emptied the attached set of a session that stays in the store
C3_Witness ==
    /\ last.op = "detach" /\ last.status = 200
    /\ last.session_id \in DOMAIN sessions
    /\ sessions[last.session_id].attached_clients = {}
    /\ sessions[last.session_id].history # <<>>

\* C4: a leave removes the session exactly when no client is attached once
\* the caller is removed, and answers closed accordingly; when another
\* client stays attached the session is kept, changed in its attached set
\* only.
C4_LeaveClosesIffLast ==
    [][\A session_id \in DOMAIN sessions, client_pid \in ClientPids :
          LeaveSession(session_id, client_pid) =>
              LET rest == sessions[session_id].attached_clients
                              \ {client_pid}
              IN  /\ last'.status = 200
                  /\ last'.closed = (rest = {})
                  /\ (session_id \notin DOMAIN sessions') = (rest = {})
                  /\ rest # {} =>
                        sessions'[session_id] =
                            [sessions[session_id] EXCEPT
                                !.attached_clients = rest]]_vars

\* a leave was answered closed=false and the session it left has a history
C4_Witness ==
    /\ last.op = "leave" /\ last.status = 200 /\ ~last.closed
    /\ last.session_id \in DOMAIN sessions
    /\ sessions[last.session_id].attached_clients # {}
    /\ sessions[last.session_id].mode = CHAT
    /\ sessions[last.session_id].history # <<>>

\* the mode strings of SessionMode
ValidModes == {"exec", "chat"}

\* C5 as claimed: a second switch to the same mode leaves the whole session,
\* last-active time included, as the first switch left it.
C5_SecondSwitchChangesNothing ==
    [][last.op = "mode" /\ last.status = 200
          /\ SwitchMode(last.session_id, last.mode) =>
              /\ last'.status = 200
              /\ sessions' = sessions]_vars

\* C5: a switch to exec or chat succeeds for every session of the store and
\* sets its mode; a second switch to the same mode changes nothing of the
\* session but its last-active time, which becomes the time of the second
\* switch, and changes no other session.
C5_SwitchModeIdempotent ==
    [][/\ \A session_id \in DOMAIN sessions, mode \in ValidModes :
            SwitchMode(session_id, mode) =>
                /\ last'.status = 200
                /\ session_id \in DOMAIN sessions'
                /\ ModeValue(sessions'[session_id].mode) = mode
       /\ (/\ last.op = "mode" /\ last.status = 200
           /\ SwitchMode(last.session_id, last.mode)) =>
                /\ last'.status = 200
                /\ sessions' = [sessions EXCEPT
                        ![last.session_id].last_active = now]]_vars

\* a switch to chat succeeded on a session with a history, after its last
\* activity
C5_Witness ==
    /\ last.op = "mode" /\ last.status = 200 /\ last.mode = "chat"
    /\ last.session_id \in DOMAIN sessions
    /\ sessions[last.session_id].mode = CHAT
    /\ sessions[last.session_id].history # <<>>
    /\ sessions[last.session_id].last_active >
            sessions[last.session_id].created_at

\* C6: a mode request whose mode string is neither exec nor chat is
\* answered 400 and changes nothing in the store, whether the session
\* exists or not.
C6_InvalidModeRejected ==
    [][\A session_id \in RequestIds, mode \in ModeStrings \ ValidModes :
          SwitchMode(session_id, mode) =>
              /\ last'.status = 400
              /\ sessions' = sessions]_vars

\* an unknown mode string was rejected for a session that is in the store
\* and has been idle since
C6_Witness ==
    /\ last.op = "mode" /\ last.status = 400
    /\ last.mode \notin ValidModes
    /\ last.session_id \in DOMAIN sessions
    /\ sessions[last.session_id].last_active < now

\* the sessions idle for more than max_age seconds at time t
IdleLongerThan(max_age, t) ==
    {k \in DOMAIN sessions :
        t - sessions[k].last_active > max_age * TicksPerSecond}

\* C7: a sweep removes exactly the sessions idle for more than max_age,
\* returns their number and leaves every other session as it was; a second
\* sweep with the same max_age at the same time removes none.
C7_SweepRemovesExactlyStale ==
    [][\A max_age \in MaxAges \cup {DefaultMaxAge} :
          Sweep(max_age) =>
              /\ DOMAIN sessions' =
                    DOMAIN sessions \ IdleLongerThan(max_age, now)
              /\ \A k \in DOMAIN sessions' : sessions'[k] = sessions[k]
              /\ last'.cleaned_sessions =
                    Cardinality(IdleLongerThan(max_age, now))
              /\ (last.op = "cleanup" /\ last.max_age = max_age
                    /\ last.at = now) =>
                        /\ last'.cleaned_sessions = 0
                        /\ sessions' = sessions]_vars

\* a sweep removed one session and kept another
C7_Witness ==
    /\ last.op = "cleanup" /\ last.cleaned_sessions = 1
    /\ last.max_age = DefaultMaxAge /\ last.at = now
    /\ DOMAIN sessions # {}

\* C8: the last-active time of a session never decreases; every history
\* append sets it to the time of the append; and a sweep removes a session
\* only when more than max_age has passed since its last activity.
C8_LastActiveMonotone ==
    [][\A k \in DOMAIN sessions :
          /\ k \in DOMAIN sessions' =>
                /\ sessions'[k].last_active >= sessions[k].last_active
                /\ Len(sessions'[k].history) > Len(sessions[k].history) =>
                        sessions'[k].last_active = now
          /\ \A max_age \in MaxAges \cup {DefaultMaxAge} :
                Sweep(max_age) /\ k \notin DOMAIN sessions' =>
                    now - sessions[k].last_active
                        > max_age * TicksPerSecond]_vars

\* a suggest or chat was recorded after the session had been idle
C8_Witness ==
    /\ last.op \in {"suggest", "chat"} /\ last.status # 404
    /\ last.session_id \in DOMAIN sessions
    /\ sessions[last.session_id].last_active = now
    /\ sessions[last.session_id].created_at < now
    /\ Len(sessions[last.session_id].history) = 2

\* C9: in every step that does not create the session anew, the history of
\* a session that stays in the store is its earlier history, followed by at
\* most one record, the record of the suggest or chat request of that step.
C9_HistoryAppendOnly ==
    [][\A k \in DOMAIN sessions \cap DOMAIN sessions' :
          ~IsCreate =>
            LET h == sessions[k].history
                g == sessions'[k].history
            IN  /\ Len(h) <= Len(g) /\ Len(g) <= Len(h) + 1
                /\ SubSeq(g, 1, Len(h)) = h
                /\ Len(g) = Len(h) + 1 =>
                      /\ last'.op \in {"suggest", "chat"}
                      /\ last'.session_id = k
                      /\ (g[Len(g)].type = "chat") = (last'.op = "chat")]_vars

\* a chat record was appended behind the record of a suggest request
C9_Witness ==
    /\ last.op = "chat" /\ last.status = 200
    /\ last.session_id \in DOMAIN sessions
    /\ Len(sessions[last.session_id].history) = 2
    /\ sessions[last.session_id].history[1].type = "command_suggestion"
    /\ sessions[last.session_id].history[2].type = "chat"

\* the provider outputs that ask, and those that refuse
AskRaws ==
    {<<"{", "\"action\":\"ASK\",\"question\":\"which directory?\"", "}">>,
     <<"ask:", SP, "which", SP, "directory?">>}
RefuseRaws ==
    {<<"{", "\"action\":\"Refuse\",\"reason\":\"too risky\"", "}">>}

\* C10: a suggest whose decision is ask or refuse appends one record, a
\* clarify_request or a refuse and no command_suggestion, answers with the
\* question (200) or the reason (400) of that record, and does not call
\* the safety classifier.
C10_AskRefuseSkipSafety ==
    [][\A session_id \in DOMAIN sessions, query \in Queries,
         raw \in AskRaws \cup RefuseRaws, answer \in SafetyAnswers :
          Suggest(session_id, query, raw, answer) =>
            LET h == sessions[session_id].history
                g == sessions'[session_id].history
            IN  /\ Len(g) = Len(h) + 1 /\ SubSeq(g, 1, Len(h)) = h
                /\ last'.safety_calls = 0
                /\ raw \in AskRaws =>
                      /\ g[Len(g)] = [type |-> "clarify_request",
                                      question |-> <<"which", SP,
                                                     "directory?">>]
                      /\ last'.status = 200
                      /\ last'.body = [status |-> "need_more_info",
                                       question |-> g[Len(g)].question]
                /\ raw \in RefuseRaws =>
                      /\ g[Len(g)] = [type |-> "refuse",
                                      reason |-> <<"too", SP, "risky">>]
                      /\ last'.status = 400
                      /\ last'.body = [detail |-> g[Len(g)].reason]]_vars

\* a refusal was recorded behind a clarification request
C10_Witness ==
    /\ last.op = "suggest" /\ last.status = 400 /\ last.raw \in RefuseRaws
    /\ last.session_id \in DOMAIN sessions
    /\ Len(sessions[last.session_id].history) = 2
    /\ sessions[last.session_id].history[1].type = "clarify_request"
    /\ sessions[last.session_id].history[2].type = "refuse"

\* C11 as claimed: for a session of the store, every suggest and every chat
\* request is answered with a success-shaped payload (status 200), whatever
\* the provider returned and whatever the decision is.
C11_SuggestChatAlwaysSuccessShaped ==
    [][\A session_id \in DOMAIN sessions :
          (\/ \E query \in Queries, raw \in RecordRaws :
                  Suggest(session_id, query, raw, Raised)
           \/ \E message \in Messages, response \in ChatAnswers :
                  Chat(session_id, message, response)) =>
              last'.status = 200]_vars

\* the provider output that is the command ls -la
LsRaw == <<"{", "\"action\":\"command\",\"command\":\"ls -la\"", "}">>

\* the decision is a command and the command passes the three validations
PassesValidation(raw) ==
    LET decision == parse_decision(raw)
        command == OrElse(decision.command, NoCommand)
    IN  /\ decision.action \notin {<<"ask">>, <<"refuse">>}
        /\ ~NotOneLine(command)
        /\ balanced_quotes_and_parens(command)
        /\ ~GnuOnly(command, darwin)

\* C12: a suggest whose decision is a command that passes validation calls
\* the safety classifier once, appends exactly one command_suggestion
\* record with the query, the parsed decision, the final command and the
\* tier, and answers success with the command and the tier of that record;
\* for ls -la the command is the decision's and the tier is the
\* classifier's answer.
C12_CommandSuggestionRecorded ==
    [][\A session_id \in DOMAIN sessions, query \in Queries,
         raw \in RawTexts, answer \in SafetyAnswers :
          Suggest(session_id, query, raw, answer) /\ PassesValidation(raw) =>
            LET h == sessions[session_id].history
                g == sessions'[session_id].history
                rec == g[Len(g)]
            IN  /\ Len(g) = Len(h) + 1 /\ SubSeq(g, 1, Len(h)) = h
                /\ last'.safety_calls = 1
                /\ rec.type = "command_suggestion"
                /\ rec.query = query
                /\ rec.assistant_decision = parse_decision(raw)
                /\ last'.status = 200
                /\ last'.body.status = "success"
                /\ last'.body.command = rec.command
                /\ last'.body.safety_level = rec.safety_level
                /\ raw = LsRaw =>
                      /\ rec.command = <<"ls", SP, "-la">>
                      /\ rec.safety_level =
                            IF answer = <<"Warning:", SP, "modifies files">>
                            THEN WARNING ELSE SAFE]_vars

\* a command suggestion the classifier answered with a warning was recorded
\* behind another record
C12_Witness ==
    /\ last.op = "suggest" /\ last.status = 200
    /\ last.body.status = "success" /\ last.body.safety_level = WARNING
    /\ last.raw = LsRaw
    /\ last.session_id \in DOMAIN sessions
    /\ Len(sessions[last.session_id].history) = 2
    /\ sessions[last.session_id].history[2].type = "command_suggestion"

\* C13: a command decision whose command holds a newline, a carriage
\* return or a triple backtick is answered with the one-line reformatting
\* request as a question (status 200, never an error), is recorded as a
\* clarify_request and not as a command_suggestion, and the safety
\* classifier is not called; ls -la passes and is returned unchanged.
C13_MultiLineCommandBecomesAsk ==
    [][\A session_id \in DOMAIN sessions, query \in Queries,
         raw \in RawTexts, answer \in SafetyAnswers :
          (/\ Suggest(session_id, query, raw, answer)
           /\ parse_decision(raw).action = <<"command">>) =>
            LET command == OrElse(parse_decision(raw).command, NoCommand)
                g == sessions'[session_id].history
            IN  /\ Contains(command, {NL, CR, FENCE}) =>
                      /\ last'.status = 200
                      /\ last'.body = [status |-> "need_more_info",
                                       question |-> ReformatOneLine]
                      /\ last'.safety_calls = 0
                      /\ Len(g) = Len(sessions[session_id].history) + 1
                      /\ g[Len(g)] = [type |-> "clarify_request",
                                      question |-> ReformatOneLine]
                /\ raw = LsRaw =>
                      /\ last'.body.status = "success"
                      /\ last'.body.command = <<"ls", SP, "-la">>]_vars

\* a command with a carriage return was answered with the reformatting
\* request
C13_Witness ==
    /\ last.op = "suggest" /\ last.status = 200
    /\ Contains(last.raw, {CR})
    /\ last.body.status = "need_more_info"
    /\ last.body.question = ReformatOneLine
    /\ last.session_id \in DOMAIN sessions
    /\ Len(sessions[last.session_id].history) = 2

\* C14: a chat request on a session of the store makes one provider call
\* and no safety check, answers 200 with the provider's response as it
\* came, and changes the session in two fields only: the history, by one
\* appended chat record holding the message and that response, and the
\* last-active time; the mode stays, whichever it is.
C14_ChatAppendsAndReturnsVerbatim ==
    [][\A session_id \in DOMAIN sessions, message \in Messages,
         response \in ChatTexts :
          Chat(session_id, message, response) =>
              /\ last'.status = 200
              /\ last'.body = [response |-> response]
              /\ last'.provider_calls = 1 /\ last'.safety_calls = 0
              /\ sessions' =
                    [sessions EXCEPT
                        ![session_id].history =
                            Append(@, [type |-> "chat",
                                       message |-> message,
                                       response |-> response]),
                        ![session_id].last_active = now]]_vars

\* a session in mode exec was answered a fenced, two-line chat response
C14_Witness ==
    /\ last.op = "chat" /\ last.status = 200
    /\ Contains(last.body.response, {FENCE}) /\ Head(last.body.response) = SP
    /\ last.session_id \in DOMAIN sessions
    /\ sessions[last.session_id].mode = EXECUTION
    /\ Len(sessions[last.session_id].history) = 2
    /\ sessions[last.session_id].history[2].response = last.body.response

\* C15: every request that names an identifier not in the store (never
\* issued, or issued and removed since) is answered 404, or 400 when it is
\* a mode request with an invalid mode string; suggest and chat make no
\* provider call; the store is left as it was.
C15_UnknownIdIsClientError ==
    [][\A session_id \in RequestIds \ DOMAIN sessions :
          /\ (\/ GetSession(session_id)
              \/ DeleteSession(session_id)
              \/ \E mode \in ValidModes : SwitchMode(session_id, mode)
              \/ \E client_pid \in ClientPids :
                    \/ AttachSession(session_id, client_pid)
                    \/ DetachSession(session_id, client_pid)
                    \/ LeaveSession(session_id, client_pid)) =>
                /\ last'.status = 404
                /\ sessions' = sessions
          /\ (\E mode \in ModeStrings \ ValidModes :
                    SwitchMode(session_id, mode)) =>
                /\ last'.status = 400
                /\ sessions' = sessions
          /\ (\/ \E query \in Queries, raw \in RecordRaws :
                    Suggest(session_id, query, raw, Raised)
              \/ \E message \in Messages, response \in ChatAnswers :
                    Chat(session_id, message, response)) =>
                /\ last'.status = 404
                /\ last'.provider_calls = 0
                /\ sessions' = sessions]_vars

\* a suggest that named an unknown identifier was answered not-found while
\* the store held a session with a history and an attached client
C15_Witness ==
    /\ last.op = "suggest" /\ last.status = 404
    /\ \E k \in DOMAIN sessions :
          /\ sessions[k].history # <<>>
          /\ sessions[k].attached_clients # {}

\* C16 as claimed: a delete of a session of the store answers success and
\* removes it; an identifier that was issued and is no longer in the store
\* stays out of it, so that every later request on it is answered
\* not-found; and the session list has one entry for each session created
\* and not yet removed: each create adds one entry, each successful delete
\* takes one away.
C16_DeleteIsTerminalAndListCounts ==
    /\ [][\A session_id \in DOMAIN sessions :
            DeleteSession(session_id) =>
                /\ last'.status = 200
                /\ session_id \notin DOMAIN sessions']_vars
    /\ [][\A session_id \in issued \ DOMAIN sessions :
            session_id \notin DOMAIN sessions']_vars
    /\ [][/\ IsCreate =>
                Cardinality(list_sessions(sessions')) =
                    Cardinality(list_sessions(sessions)) + 1
          /\ (\E session_id \in DOMAIN sessions :
                    DeleteSession(session_id)) =>
                Cardinality(list_sessions(sessions')) =
                    Cardinality(list_sessions(sessions)) - 1]_vars

\* the provider a default name stands for, None for a name that stands
\* for none
Named(default) ==
    CASE LowerName(default) = "gemini" -> "GeminiProvider"
      [] LowerName(default) = "claude" -> "ClaudeProvider"
      [] LowerName(default) = "ollama" -> "OllamaProvider"
      [] OTHER -> None

\* C17 as claimed: with a non-empty default name in the settings,
\* create_provider returns the provider of that name or raises; it returns
\* no other provider.
C17_NamedProviderOrFatal ==
    (provider # Unset /\ Present(settings.default)) =>
        provider \in {Named(settings.default), RuntimeError} \ {None}

\* C18: with no default named, create_provider returns the Gemini provider
\* when the Gemini key is non-empty, else the Claude provider when the
\* Claude key is non-empty, else what build_ollama gives; so Claude is
\* chosen only without a Gemini key and Ollama only without both keys.
C18_AutoChainInPriorityOrder ==
    (provider # Unset /\ ~Present(settings.default)) =>
        /\ Present(settings.gemini_key) => provider = "GeminiProvider"
        /\ (~Present(settings.gemini_key) /\ Present(settings.claude_key))
                => provider = "ClaudeProvider"
        /\ (~Present(settings.gemini_key) /\ ~Present(settings.claude_key))
                => provider \in {"OllamaProvider", RuntimeError}

\* Claude was chosen with an empty Gemini key and no default, and Ollama
\* was not touched
C18_Witness ==
    /\ provider = "ClaudeProvider"
    /\ settings.default = "" /\ settings.gemini_key = ""
    /\ settings.claude_key = "key"
    /\ settings.ollama_model # None /\ ~ollama.up
    /\ settings.local /\ settings.autostart /\ settings.binary
    /\ ollama.child = "none"

\* C19 as claimed: with no default named and no hosted credential,
\* create_provider returns the Ollama provider, whatever the model setting,
\* the reachability of the server and the installed models.
C19_OllamaAlwaysConstructible ==
    (/\ provider # Unset
     /\ ~Present(settings.default)
     /\ ~Present(settings.gemini_key)
     /\ ~Present(settings.claude_key)) =>
        provider = "OllamaProvider"

\* spawning was skipped at startup: the server answered, the target is not
\* local, autostart is disabled or the binary was not found
SpawnSkipped ==
    \/ ollama.up
    \/ ~settings.local
    \/ ~settings.autostart
    \/ ~settings.binary

\* C20: when spawning was skipped there is no process handle and no signal
\* is ever sent; a shutdown without a handle sends nothing; a shutdown with
\* the handle of a process that is alive signals that process, SIGTERM
\* first, and leaves it exited.
C20_ShutdownStopsOnlyOwnProcess ==
    /\ [](SpawnSkipped =>
            AUTOSTARTED_OLLAMA_PROC = None /\ ollama.signals = <<>>)
    /\ [][\A term_ok \in BOOLEAN, exits \in BOOLEAN, kill_ok \in BOOLEAN :
            OnShutdown(term_ok, exits, kill_ok) =>
              /\ AUTOSTARTED_OLLAMA_PROC = None => ollama' = ollama
              /\ (AUTOSTARTED_OLLAMA_PROC # None
                    /\ ollama.child = "alive") =>
                    /\ ollama'.child = "exited"
                    /\ Len(ollama'.signals) > Len(ollama.signals)
                    /\ ollama'.signals[Len(ollama.signals) + 1].sig
                            = "SIGTERM"
                    /\ \A i \in DOMAIN ollama'.signals :
                            ollama'.signals[i].to = "child"]_vars

\* the daemon spawned the server, ran with it, and its shutdown had to
\* kill it
C20_Witness ==
    /\ provider = "OllamaProvider"
    /\ ~SpawnSkipped
    /\ AUTOSTARTED_OLLAMA_PROC = None
    /\ ollama.child = "exited"
    /\ Len(ollama.signals) = 2

\* C21: a shutdown can run in every state of a daemon that came up; it
\* leaves the handle cleared; it sends signals only when it found a handle
\* whose process was alive, which happens at most once, so that no signal
\* had been sent before; and a shutdown without a handle changes neither
\* the handle nor any process.
C21_ShutdownIdempotent ==
    /\ [](provider \notin {Unset, RuntimeError} =>
            ENABLED OnShutdown(TRUE, TRUE, TRUE))
    /\ [][\A term_ok \in BOOLEAN, exits \in BOOLEAN, kill_ok \in BOOLEAN :
            OnShutdown(term_ok, exits, kill_ok) =>
              /\ AUTOSTARTED_OLLAMA_PROC' = None
              /\ ollama'.signals # ollama.signals =>
                    /\ AUTOSTARTED_OLLAMA_PROC # None
                    /\ ollama.child = "alive"
                    /\ ollama.signals = <<>>
              /\ AUTOSTARTED_OLLAMA_PROC = None =>
                    UNCHANGED <<AUTOSTARTED_OLLAMA_PROC, ollama>>
              /\ last.op = "shutdown" =>
                    /\ last'.sent = <<>>
                    /\ UNCHANGED <<AUTOSTARTED_OLLAMA_PROC, ollama>>]_vars

\* a shutdown that sent nothing ran after the process had been signalled
C21_Witness ==
    /\ last.op = "shutdown" /\ last.sent = <<>>
    /\ ollama.signals # <<>>
    /\ AUTOSTARTED_OLLAMA_PROC = None

\* the download tasks in flight: the download threads that have not ended
\* and the requests that have registered a download and not started it yet
InFlight ==
    {t \in DOMAIN threads :
        \/ t \in Workers /\ threads[t].pc # "done"
        \/ t \in Requesters /\ threads[t].pc = "start"}

\* C22: however the generation requests of two threads interleave, at most
\* one background download of the model is in flight at any time, and the
\* model is registered in _OLLAMA_PULLING while a download thread has not
\* reached its discard
C22_OneDownloadInFlight ==
    /\ Cardinality(InFlight) <= 1
    /\ \A t \in InFlight :
          threads[t].pc \in {"start", "pull", "acquire", "discard"}
              => Model \in OLLAMA_PULLING

\* C22 witness: a request returned the Downloading text between the
\* registration of a download by the other request and the start of its
\* thread: two concurrent requests, one download
C22_Witness ==
    /\ DOMAIN threads = Requesters
    /\ threads[<<"r", 1>>].pc = "start"
    /\ threads[<<"r", 2>>].result = Downloading
    /\ threads[<<"r", 2>>].pc = "done"

\* a request inside _pull_model_background waits for nothing but the lock,
\* and whoever holds the lock is not downloading
NeverWaitsForDownload(t) ==
    \/ ENABLED ThreadStep(t)
    \/ /\ threads[t].pc = "acquire"
       /\ OLLAMA_PULL_LOCK \in DOMAIN threads
       /\ threads[OLLAMA_PULL_LOCK].pc \in
              {"check", "add", "discard", "release"}
       /\ ENABLED ThreadStep(OLLAMA_PULL_LOCK)

\* C23: a request whose model is absent never waits for the download: the
\* pull runs on download threads only and never under the lock, a request
\* in progress can always take its next step or waits for a thread that is
\* between acquire and release, and a request that found the model absent
\* enters _pull_model_background and returns the Downloading text
C23_RequestNeverWaitsForPull ==
    /\ [](\A t \in Requesters \cap DOMAIN threads :
            /\ threads[t].pc # "pull"
            /\ threads[t].pc # "done" => NeverWaitsForDownload(t))
    /\ [][\A t \in Requesters \cap DOMAIN threads :
            /\ EnsureModel(t) /\ Model \notin tags
               => threads'[t].pc = "acquire"
            /\ threads[t].pc \in {"release", "start"}
                   /\ threads'[t].pc = "done"
               => threads'[t].result = Downloading]_vars

\* C23 witness: a request has returned the Downloading text while the
\* download it started is still running
C23_Witness ==
    /\ <<"r", 1>> \in DOMAIN threads
    /\ threads[<<"r", 1>>].pc = "done"
    /\ threads[<<"r", 1>>].result = Downloading
    /\ threads[<<"r", 1>>].calls = 0
    /\ \E w \in Workers : threads[w].pc = "pull"

\* C24: a generation call answered with not-found after the availability
\* check found the model is followed by one more generation call of the
\* same request, and the second call is not followed by a third
C24_NotFoundRetriedOnce ==
    [][\A t \in Requesters \cap DOMAIN threads :
          threads[t].pc = "generate" /\ Model \notin tags
              /\ threads'[t] # threads[t]
          => IF threads[t].calls = 0
             THEN threads'[t].pc = "generate" /\ threads'[t].calls = 1
             ELSE threads'[t].pc # "generate"]_vars

\* C25: whatever the backend and however its reply fails, suggest and chat
\* return a text, so that no request is answered with the status of an
\* exception that escaped the provider or of a response that is no text
C25_ProviderFailuresBecomeText ==
    last.op \in {"suggest", "chat"} => last.status # 500

\* the answers to the safety prompt that leave the verdict to the heuristic
Heuristic ==
    /\ last.op = "check_command"
    /\ last.answer \in {Raised, <<"maybe">>, <<>>}

\* the command begins with "sudo " and the first token of the rest is a
\* destructive command name
SudoDestructive(command) ==
    LET c == Lower(Strip(command))
    IN  /\ Len(c) >= 2 /\ c[1] = "sudo" /\ c[2] = SP
        /\ Len(FirstWord(SubSeq(c, 3, Len(c)))) = 1
        /\ FirstWord(SubSeq(c, 3, Len(c)))[1] \in DANGEROUS_COMMANDS

\* C26: the heuristic calls a sudo command whose rest begins with a
\* destructive command name dangerous, with the reason that names sudo
C26_SudoDestructiveIsDangerous ==
    Heuristic /\ SudoDestructive(last.command)
        => /\ last.safety_level = DANGEROUS
           /\ last.reason[1] = "sudo"

\* the command starts with the phrase "git reset --hard"
GitResetHard(command) ==
    LET c == Lower(Strip(command))
    IN  /\ Len(c) >= 5
        /\ SubSeq(c, 1, 5) = <<"git", SP, "reset", SP, "--hard">>

\* C27: the heuristic calls a command that starts with "git reset --hard"
\* a warning
C27_GitResetHardIsWarning ==
    Heuristic /\ GitResetHard(last.command)
        => last.safety_level = WARNING

\* the single-token state-modifying command names
StateModifying ==
    {"mv", "cp", "chmod", "chown", "sudo", "su", "wget", "curl"}

\* the ordered rules on the lower-cased trimmed command
OrderedRules(command) ==
    LET c == Lower(Strip(command))
        first == FirstWord(c)
    IN  IF RmRf(c) \/ ForkBomb(c) \/ DeviceWrite(c) THEN DANGEROUS
        ELSE IF Len(first) = 1 /\ first[1] \in DANGEROUS_COMMANDS
        THEN DANGEROUS
        ELSE IF Len(first) = 1 /\ first[1] \in StateModifying THEN WARNING
        ELSE SAFE

\* the examples and their tiers
Examples ==
    {<<<<"ls", SP, "-la">>, SAFE>>,
     <<<<"pwd">>, SAFE>>,
     <<<<"echo", SP, "hello">>, SAFE>>,
     <<<<"mv", SP, "a", SP, "b">>, WARNING>>,
     <<<<"cp">>, WARNING>>,
     <<<<"chmod">>, WARNING>>,
     <<<<"sudo", SP, "ls">>, WARNING>>,
     <<<<"rm", SP, "file">>, DANGEROUS>>,
     <<<<"rm", SP, "-rf", SP, "/">>, DANGEROUS>>,
     <<<<"rm", SP, "-rf", SP, "*">>, DANGEROUS>>,
     <<<<"dd", SP, "if=x", SP, "of=/dev/sda">>, DANGEROUS>>,
     <<<<"sudo", SP, "rm", SP, "-rf", SP, "/">>, DANGEROUS>>,
     <<<<":", "(", ")", "{", SP, ":|:&", SP, "}", ";", ":">>, DANGEROUS>>}

\* C28: the heuristic gives the tier of the ordered rules (pattern, then
\* destructive first token, then state-modifying first token, then safe),
\* and the examples get the tiers stated
C28_HeuristicOrderedRules ==
    Heuristic =>
        /\ last.safety_level = OrderedRules(last.command)
        /\ \A example \in Examples :
              last.command = example[1] => last.safety_level = example[2]

\* C28 witness: the heuristic has classified a sudo command that matches a
\* destructive pattern
C28_Witness ==
    /\ Heuristic
    /\ last.command = <<"sudo", SP, "rm", SP, "-rf", SP, "/">>
    /\ last.safety_level = DANGEROUS

\* the tier whose prefix the trimmed answer starts with, in any letter
\* case, or None
PrefixTier(answer) ==
    LET first == IF answer = Raised \/ Strip(answer) = <<>> THEN ""
                 ELSE Strip(answer)[1]
    IN  CASE first \in {"SAFE:", "Safe:", "safe:"} -> SAFE
          [] first \in {"WARNING:", "Warning:", "warning:"} -> WARNING
          [] first \in {"DANGEROUS:", "Dangerous:", "dangerous:"} -> DANGEROUS
          [] OTHER -> None

\* C29: the safety classifier always gives one of the three tiers and a
\* reason that is not empty; an answer that starts with one of the three
\* prefixes, in any letter case, gives the tier of the prefix; a failed call
\* and an answer without a prefix give the verdict of the heuristic
C29_VerdictCompleteAndFallsBack ==
    last.op = "check_command" =>
        /\ last.safety_level \in {SAFE, WARNING, DANGEROUS}
        /\ last.reason # <<>>
        /\ \A i \in 1..Len(last.reason) : last.reason[i] # ""
        /\ IF PrefixTier(last.answer) # None
           THEN last.safety_level = PrefixTier(last.answer)
           ELSE /\ last.safety_level = FallbackVerdict(last.command).level
                /\ last.reason = FallbackVerdict(last.command).reason

\* C29 witness: an answer in lower case with nothing after the prefix has
\* overruled the heuristic, and the reason is the default one
C29_Witness ==
    /\ last.op = "check_command"
    /\ last.command = <<"ls", SP, "-la">>
    /\ last.answer = <<"dangerous:", SP>>
    /\ last.safety_level = DANGEROUS
    /\ last.reason = <<"AI detected high risk">>

\* the three variants of a decision
Variants == {<<"command">>, <<"ask">>, <<"refuse">>}

\* the raw text holds a structured object, fences and blanks around it
\* dropped: the whole text or the object found inside it
HasObject(raw) ==
    LoadsDict(Unfenced(raw)) \/ LoadsDict(BraceMatch(Unfenced(raw)))

\* the structured object of a raw text that holds one
ObjectOf(raw) ==
    IF LoadsDict(Unfenced(raw)) THEN Loads(Unfenced(raw))
    ELSE Loads(BraceMatch(Unfenced(raw)))

\* the raw text holds a structured object with a recognized action
Recognized(raw) ==
    /\ HasObject(raw)
    /\ ObjectOf(raw).has_action
    /\ Lower(ObjectOf(raw).action) \in Variants

\* C30: decision parsing gives one of the three variants for every raw
\* text: the variant of a structured object with a recognized action, the
\* same for the fenced object as for the bare one; otherwise ask with the
\* trimmed remainder for a text that begins with "ask:" in any letter case;
\* otherwise command with the whole trimmed text (the text is the raw text
\* with blanks and fences around it dropped)
C30_ParsingTotalAndOrdered ==
    last.op = "parse_decision" =>
        LET raw == last.raw
            decision == last.decision
        IN  /\ decision.action \in Variants
            /\ \A core \in ParseCores, head \in {<<FENCE, "json", NL>>,
                                                 <<FENCE, NL>>} :
                  raw = head \o core \o <<NL, FENCE>> /\ LoadsDict(core)
                      => decision = parse_decision(core)
            /\ IF Recognized(raw)
               THEN decision.action = Lower(ObjectOf(raw).action)
               ELSE IF Unfenced(raw) # <<>>
                       /\ LowerTok(Head(Unfenced(raw))) = "ask:"
               THEN /\ decision.action = <<"ask">>
                    /\ decision.question = Strip(Tail(Unfenced(raw)))
               ELSE /\ decision.action = <<"command">>
                    /\ decision.command = Unfenced(raw)

\* the first balanced { ... } substring of a text: from the first "{" to
\* the first "}" after it (the objects of JsonBodies hold no braces), <<>>
\* without one
FirstBalanced(text) ==
    LET opens == {i \in 1..Len(text) : text[i] = "{"}
        first == CHOOSE i \in opens : \A k \in opens : i <= k
        closes == {j \in 1..Len(text) : text[j] = "}" /\ j > first}
        close == CHOOSE j \in closes : \A k \in closes : j <= k
    IN  IF opens # {} /\ closes # {} THEN SubSeq(text, first, close)
        ELSE <<>>

\* the text is no structured object and its first balanced substring is
\* one with an action
EmbeddedDecision(raw) ==
    /\ ~LoadsDict(Unfenced(raw))
    /\ LoadsDict(FirstBalanced(Unfenced(raw)))
    /\ Loads(FirstBalanced(Unfenced(raw))).has_action

\* C31: a decision embedded in other text is recovered from the first
\* balanced { ... } substring, also when more braces follow it
C31_EmbeddedObjectRecovered ==
    last.op = "parse_decision" /\ EmbeddedDecision(last.raw)
        => last.decision = DecisionOf(Loads(FirstBalanced(Unfenced(last.raw))))

\* the state of a left-to-right pass over s after n characters: the quote
\* that is open, whether the next character is escaped, the depth of the
\* parentheses outside quotes, and whether the depth has been negative
RECURSIVE PassAfter(_, _)
PassAfter(s, n) ==
    IF n = 0
    THEN [quote |-> "none", esc |-> FALSE, depth |-> 0, negative |-> FALSE]
    ELSE LET p == PassAfter(s, n - 1)
             ch == s[n]
         IN  IF p.esc THEN [p EXCEPT !.esc = FALSE]
             ELSE IF ch = BS THEN [p EXCEPT !.esc = TRUE]
             ELSE IF ch = SQ /\ p.quote # "double"
             THEN [p EXCEPT !.quote = IF @ = "single" THEN "none"
                                      ELSE "single"]
             ELSE IF ch = DQ /\ p.quote # "single"
             THEN [p EXCEPT !.quote = IF @ = "double" THEN "none"
                                      ELSE "double"]
             ELSE IF ch = "(" /\ p.quote = "none"
             THEN [p EXCEPT !.depth = @ + 1]
             ELSE IF ch = ")" /\ p.quote = "none"
             THEN [p EXCEPT !.depth = @ - 1,
                            !.negative = @ \/ p.depth - 1 < 0]
             ELSE p

\* no quote is left open, the depth is zero and never went negative
PassAccepts(s) ==
    /\ PassAfter(s, Len(s)).quote = "none"
    /\ PassAfter(s, Len(s)).depth = 0
    /\ ~PassAfter(s, Len(s)).negative

\* C32: a one-line command passes the balance check exactly when the pass
\* leaves no quote open and the parenthesis depth is zero and was never
\* negative; the two quoted examples pass, the unterminated quote and the
\* closing parenthesis before the opening one are turned into the question
C32_BalanceCheckExact ==
    last.op = "validate" /\ ~NotOneLine(last.command) =>
        /\ last.question = ReformatBalance <=> ~PassAccepts(last.command)
        /\ last.command \in
               {<<"echo", SP, DQ, "it", SQ, "s", SP, "fine", DQ>>,
                <<"find", SP, ".", SP, "-name", SP, DQ, "*.py", DQ>>}
               => last.question = <<>>
        /\ last.command \in {<<"echo", SP, DQ, "unterminated">>,
                             <<")", "(">>}
               => last.question = ReformatBalance

\* C32 witness: the command with a single quote inside double quotes has
\* passed the balance check
C32_Witness ==
    /\ last.op = "validate"
    /\ last.command = <<"echo", SP, DQ, "it", SQ, "s", SP, "fine", DQ>>
    /\ last.question = <<>>

\* one command for each GNU-only idiom: find -printf, sed -r, du with a
\* long-form flag, grep -P
GnuCommands ==
    {<<"find", SP, ".", SP, "-printf", SP, "x">>,
     <<"sed", SP, "-r", SP, "s/a/b/", SP, "f">>,
     <<"du", SP, "--max-depth=1">>,
     <<"grep", SP, "-P", SP, "x", SP, "f">>}

\* C33: the GNU-idiom check depends on the platform flag only: a command
\* with a GNU-only idiom is turned into the question when the flag is set
\* and passes the validation when it is not, and no command is rejected
\* for GNU idioms without the flag or without a match
C33_GnuCheckDependsOnPlatform ==
    last.op = "validate" =>
        /\ last.command \in GnuCommands
               => last.question = IF darwin THEN ReformatGnu ELSE <<>>
        /\ last.question = ReformatGnu
               => /\ darwin
                  /\ \E pat \in forbidden_patterns :
                         SearchPattern(pat, last.command)
                  /\ Validated(last.command, FALSE) = <<>>

\* C33 witness: sed -r has passed the validation on a platform without the
\* flag
C33_Witness ==
    /\ last.op = "validate"
    /\ ~darwin
    /\ last.command = <<"sed", SP, "-r", SP, "s/a/b/", SP, "f">>
    /\ last.question = <<>>

\* C34: a shutdown that finds the handle of a process that is alive sends
\* SIGTERM first, to the group of that process unless os.killpg raised, and
\* SIGKILL after it exactly when the process has not exited within the
\* timeout; a process that exits in time gets no SIGKILL; and the shutdown
\* ends, with the handle cleared and the process gone, whatever os.killpg
\* and the process do.
C34_ShutdownOrder ==
    /\ [](provider \notin {Unset, RuntimeError} =>
            \A term_ok \in BOOLEAN, exits \in BOOLEAN, kill_ok \in BOOLEAN :
                ENABLED OnShutdown(term_ok, exits, kill_ok))
    /\ [][\A term_ok \in BOOLEAN, exits \in BOOLEAN, kill_ok \in BOOLEAN :
            /\ OnShutdown(term_ok, exits, kill_ok)
            /\ AUTOSTARTED_OLLAMA_PROC # None
            /\ ollama.child = "alive"
            => /\ last'.op = "shutdown"
               /\ Len(last'.sent) = IF exits THEN 1 ELSE 2
               /\ last'.sent[1].sig = "SIGTERM"
               /\ last'.sent[1].to = AUTOSTARTED_OLLAMA_PROC
               /\ term_ok => last'.sent[1].by = "killpg"
               /\ ~exits => /\ last'.sent[2].sig = "SIGKILL"
                            /\ last'.sent[2].to = AUTOSTARTED_OLLAMA_PROC
               /\ ollama'.signals = last'.sent
               /\ ollama'.child = "exited"
               /\ AUTOSTARTED_OLLAMA_PROC' = None]_vars

\* C34 witness: a shutdown has ended after one SIGTERM to the process
\* group, the process having exited within the timeout
C34_Witness ==
    /\ last.op = "shutdown"
    /\ Len(last.sent) = 1
    /\ last.sent[1].sig = "SIGTERM" /\ last.sent[1].by = "killpg"
    /\ ollama.signals = last.sent
    /\ ollama.child = "exited"
    /\ AUTOSTARTED_OLLAMA_PROC = None

\* the step appends one record to the history of one session and leaves
\* the history of every other session as it was
AppendsOne ==
    \E id \in DOMAIN sessions :
        /\ DOMAIN sessions' = DOMAIN sessions
        /\ Len(sessions'[id].history) = Len(sessions[id].history) + 1
        /\ SubSeq(sessions'[id].history, 1, Len(sessions[id].history))
               = sessions[id].history
        /\ \A other \in DOMAIN sessions \ {id} :
               sessions'[other].history = sessions[other].history

\* C35: every suggest request and every chat request that finds its session
\* appends exactly one record to the history of that session, whatever the
\* answer: a question, a refusal, a reformat request, a suggestion, a chat
\* response or an error.
C35_OneRecordPerRequest ==
    [][/\ last'.op \in {"suggest", "chat"}
       /\ last'.status # 404
       /\ last' # last \/ sessions' # sessions
       => AppendsOne]_vars

PendingDownloads ==
    {t \in DOMAIN threads :
        \/ t \in Requesters /\ \/ threads[t].pc = "start"
                               \/ /\ threads[t].pc = "release"
                                  /\ threads[t].next = "start"
        \/ t \in Workers /\ threads[t].pc \in {"pull", "acquire", "discard"}}

\* C37: the model name is in _OLLAMA_PULLING only while a download of it is
\* pending or running; a download thread goes to its discard whatever the
\* POST of /api/pull did and its discard takes the name out; so a name in
\* the set leads to an empty set and a download thread that started leads
\* to its end; and a request that finds the set without the name registers
\* a new download.
C37_DownloadSetEmptied ==
    /\ [](Model \in OLLAMA_PULLING => PendingDownloads # {})
    /\ [][\A t \in WorkerIds :
            /\ \A outcome \in PullOutcomes :
                   PullModel(t, outcome) => threads'[t].pc = "acquire"
            /\ Discard(t) => Model \notin OLLAMA_PULLING'
            /\ t \in DOMAIN threads /\ t \in DOMAIN threads'
               /\ threads[t].pc # "done" /\ threads'[t].pc = "done"
                 => \/ Model \notin OLLAMA_PULLING
                    \/ PendingDownloads \ {t} # {}]_vars
    /\ [][\A t \in Requesters :
            Check(t) /\ Model \notin OLLAMA_PULLING
                => threads'[t].pc = "add"]_vars
    /\ (Model \in OLLAMA_PULLING) ~> (OLLAMA_PULLING = {})
    /\ \A t \in WorkerIds :
          (t \in DOMAIN threads /\ threads[t].pc = "pull")
              ~> (t \in DOMAIN threads /\ threads[t].pc = "done")

\* C37 witness: the first download has ended, the set was emptied, and a
\* later request for the model that is still missing has started a second
\* download, which is running
C37_Witness ==
    /\ <<"w", 2>> \in DOMAIN threads
    /\ threads[<<"w", 1>>].pc = "done"
    /\ threads[<<"w", 1>>].result # "pulled"
    /\ threads[<<"w", 2>>].pc = "pull"
    /\ OLLAMA_PULLING = {Model}
    /\ Model \notin tags

\* C38: a suggest response with status success carries a command that is
\* not empty: the command of the decision, or the placeholder when the
\* decision has none; a raw text without a command and an object with an
\* unknown action are answered as command decisions, whose command (the
\* object's command, else the placeholder) has passed the validation and
\* has a safety level; they are never answered as ask or refuse.
C38_SuccessHasCommand ==
    last.op = "suggest" /\ last.status \in {200, 400} =>
      LET decision == parse_decision(last.raw)
      IN  /\ last.status = 200 /\ last.body.status = "success" =>
                /\ last.body.command # <<>>
                /\ last.body.command # None
                /\ last.body.command = OrElse(decision.command, NoCommand)
                /\ Validated(last.body.command, darwin) = <<>>
                /\ last.body.safety_level \in {SAFE, WARNING, DANGEROUS}
                /\ last.safety_calls = 1
          /\ last.raw \in NoCommandRaws =>
                /\ last.status = 200
                /\ last.body.status = "success"
                /\ last.body.command = NoCommand
          /\ decision.action \notin {<<"command">>, <<"ask">>, <<"refuse">>}
                /\ <<"pwd">> = decision.command =>
                /\ last.status = 200
                /\ last.body.status = "success"
                /\ last.body.command = <<"pwd">>

\* C38 witness: an object whose command is the empty string was answered
\* with the placeholder as a successful suggestion
C38_Witness ==
    /\ last.op = "suggest" /\ last.status = 200
    /\ last.raw = <<"{", "\"action\":\"command\",\"command\":\"\"", "}">>
    /\ last.body.status = "success"
    /\ last.body.command = NoCommand
    /\ sessions[last.session_id].history[
           Len(sessions[last.session_id].history)].type = "command_suggestion"

\* the step leaves every session but the one named id as it was
OthersUnchanged(id) ==
    \A other \in DOMAIN sessions \ {id} :
        /\ other \in DOMAIN sessions'
        /\ sessions'[other] = sessions[other]

\* the step is a request of one of the kinds ops that was answered
Answered(ops) ==
    /\ last'.op \in ops
    /\ last' # last \/ sessions' # sessions

\* a switchMode, suggest, chat or delete leaves the sessions it does not
\* name as they were; suggest and chat leave every mode and switchMode
\* leaves every history as it was
RequestsIsolated ==
    [][/\ Answered({"mode", "suggest", "chat", "delete"}) =>
            IF last'.status = 404 THEN UNCHANGED sessions
            ELSE OthersUnchanged(last'.session_id)
       /\ Answered({"suggest", "chat"}) =>
            \A id \in DOMAIN sessions :
                /\ id \in DOMAIN sessions'
                /\ sessions'[id].mode = sessions[id].mode
       /\ Answered({"mode"}) =>
            \A id \in DOMAIN sessions :
                /\ id \in DOMAIN sessions'
                /\ sessions'[id].history = sessions[id].history]_vars

\* C39: sessions are isolated: a switchMode, suggest, chat or delete leaves
\* every session it does not name unchanged, suggest and chat change no
\* mode, switchMode changes no history, and a create leaves every session
\* that exists unchanged.
C39_SessionsIsolated ==
    /\ RequestsIsolated
    /\ [][Answered({"create"}) =>
            \A id \in DOMAIN sessions :
                /\ id \in DOMAIN sessions'
                /\ sessions'[id] = sessions[id]]_vars

====
